---- MODULE Spec2Model ----
(***************************************************************************)
(* State-machine model of the Neo AI service (neo-ai-service/src): the     *)
(* response cache, the token-bucket rate limiter, the circuit breaker and   *)
(* the retry wrapper, the chat handler with its router, the IPC client and  *)
(* its wire codec, and the cache-key derivation.                            *)
(*                                                                          *)
(* Every component has its own variables and its own specification; the     *)
(* actions of one component leave the variables of the others unchanged.    *)
(* Wall-clock time is the variable now, in whole seconds.  Python's None    *)
(* is written NoTtl / NoTime (-1) for numbers and "None" for strings.       *)
(***************************************************************************)
EXTENDS Integers, Sequences, FiniteSets, TLC

VARIABLES
    now,          \* time.time(), in seconds
    \* ---- cache/cache_manager.py
    cacheCfg,     \* CacheConfig: enabled, storage_type
    cache,        \* CacheManager.cache: the OrderedDict, oldest first
    files,        \* <storage_path>/<key>.json, per key: <<>> or <<entry>>
    hits,         \* CacheManager.hits
    misses,       \* CacheManager.misses
    evictions,    \* CacheManager.evictions
    cacheRet,     \* what the last CacheManager call returned
    cacheOps,     \* history: number of CacheManager calls made
    recency,      \* history: keys by recency (insertion, then get() hits)
    setTtl,       \* history: per cached key, the ttl argument of the set() that stored it
    \* ---- rate_limiter/token_bucket.py
    bucket,       \* a TokenBucket: capacity, refill_rate, tokens, last_refill
    bucketRet,    \* what the last TokenBucket call returned
    bucketLog,    \* history: the consume() calls made, with their results
    \* ---- rate_limiter/rate_limiter.py
    limCfg,       \* RateLimitConfig: enabled, enable_priority
    limBuckets,   \* global_second_bucket, global_minute_bucket and, per
                  \* client, client_second_buckets / client_minute_buckets
                  \* (<<>> while the client has none)
    total_requests,     \* RateLimiter.total_requests
    rejected_requests,  \* RateLimiter.rejected_requests
    client_stats,       \* RateLimiter.client_stats: per client <<>> or <<stats>>
    limCall,      \* history: the arguments of the last check_rate_limit
    limRet,       \* what the last check_rate_limit returned
    limReason,    \* the reason of the rejection it recorded, or "None"
    \* ---- errors/error_handler.py: CircuitBreaker
    breaker,      \* a CircuitBreaker: state, failure_count, last_failure_time
    breakerRet,   \* what the last can_attempt() returned
    breakerOp,    \* history: the CircuitBreaker method called last
    streak,       \* history: record_failure calls since the last record_success
    stateBefore,  \* history: the state the breaker had when that method began
    \* ---- errors/error_handler.py: ErrorHandler.with_retry
    rtCfg,        \* ErrorConfig: enable_retry, and breaker_on for
                  \* `service_name and enable_circuit_breaker`
    callers,      \* per task running a wrapped call: its position in the
                  \* wrapper, its locals, and the history of the call
    retries,      \* error_stats["retries"]
    total_errors, \* error_stats["total_errors"]
    rtCalls,      \* history: number of wrapped calls started
    \* ---- router/model_router.py and handlers/chat.py
    chatCfg,      \* whether set_components gave the handler a model_router
                  \* and a cache_manager: has_router, has_cache
    routerCfg,    \* RouterConfig: enabled, enable_fallback, track_model_health
    adapters,     \* the keys of the adapters dict
    model_health, \* ModelRouter.model_health, per model
    routing_stats,\* ModelRouter.routing_stats, per model
    handlers,     \* per task running handle_chat: its position, its locals,
                  \* the adapter calls it made and its response
    chatReqs,     \* history: number of handle_chat calls started
    \* ---- ipc/client.py
    ipcHandlers,  \* NeoIPCClient.handlers: the methods that have a handler
    connected,    \* NeoIPCClient.connected
    writable,     \* whether writer.write / drain still succeed
    running,      \* whether run() is still in its receive loop
    received,     \* history: the frames _read_message returned, in order
    tasks,        \* per received frame: the _handle_request task created
                  \* for it, or NoTask
    outbox,       \* the frames written to the connection, in order
    sentFor,      \* history: per written frame, the index in received of
                  \* the request it answers
    heartbeat,    \* _heartbeat_task: "sleeping" in its loop, or "stopped"
    \* ---- ipc/protocol.py
    codecMsg,     \* the Message given to encode_message
    wire,         \* the bytes on the connection that are not yet read
    content,      \* the msg_bytes that _read_message read, <<>> before
    decoded,      \* <<>> or <<the Message decode_message returned>>
    codecPc,      \* position: "encode", "read", "decode" or "done"
    \* ---- cache/cache_key.py
    keyCalls,     \* the argument objects of two generate_cache_key calls
    keyCalls0,    \* history: these objects as they were before the calls
    keyRet,       \* per call: <<>> or <<the key it returned>>
    \* ---- monitoring/metrics_collector.py
    mCfg,         \* MetricsCollector: window_size, max_samples
    feed,         \* the record_* calls the service is going to make
    metrics,      \* MetricsCollector.metrics: per name, the samples kept
    counters,     \* MetricsCollector.counters, per metric key
    gauges,       \* MetricsCollector.gauges, per metric key
    metricsRet,   \* the last call, and what get_metric_summary returned
    task_cache,          \* ModelSelector.task_cache: combined text -> task type
    selCall,             \* the selector call made last and what it returned
    \* ---- router/model_router.py: ModelHealth
    healthLog,           \* per model: the record_success / record_failure calls made
    fbRet,               \* the last get_fallback_model call and what it returned
    routeRet,            \* the last select_model call and what it returned
    waiters,        \* the calls of RateLimiter.wait_if_needed, per task
    lock,           \* TokenBucket._lock: the task that holds it, or "None"
    cw,             \* the calls of TokenBucket.consume_with_wait, per task
    \* ---- ipc/client.py: register_service, _heartbeat_loop, disconnect
    beat,           \* the calls made on the client, the sleep of the heartbeat task, and when each frame was written
    \* ---- ipc/client.py: _send_message on the StreamWriter
    senders,        \* per task that sends: where it is in _send_message
    sendbuf,        \* the bytes the StreamWriter holds that are not yet sent
    written         \* history: the Messages whose frames were written, in order

cacheVars == <<cacheCfg, cache, files, hits, misses, evictions, cacheRet,
               cacheOps, recency, setTtl>>

bucketVars == <<bucket, bucketRet, bucketLog>>

limiterVars == <<limCfg, limBuckets, total_requests, rejected_requests,
                 client_stats, limCall, limRet, limReason>>

breakerVars == <<breaker, breakerRet, breakerOp, streak, stateBefore>>

retryVars == <<rtCfg, callers, retries, total_errors, rtCalls>>

routerVars == <<routerCfg, adapters, model_health, routing_stats>>

chatVars == <<chatCfg, handlers, chatReqs>>

ipcVars == <<ipcHandlers, connected, writable, running, received, tasks,
             outbox, sentFor, heartbeat>>

codecVars == <<codecMsg, wire, content, decoded, codecPc>>

keyVars == <<keyCalls, keyCalls0, keyRet>>

\* the connection, its codec and the key derivation
wireVars == <<ipcVars, codecVars, keyVars>>

metricsVars == <<mCfg, feed, metrics, counters, gauges, metricsRet>>

selVars == <<task_cache, selCall>>

healthVars == <<healthLog, fbRet, routeRet>>

waitVars == <<waiters>>

lockVars == <<lock, cw>>

beatVars == <<beat>>

streamVars == <<senders, sendbuf, written>>

vars == <<now, cacheVars, bucketVars, limiterVars, breakerVars, retryVars,
          routerVars, chatVars, wireVars,
          metricsVars,
          selVars,
          healthVars,
          waitVars,
          lockVars,
          beatVars,
          streamVars>>

\* the variables of the other components, per component
exceptCache == <<bucketVars, limiterVars, breakerVars, retryVars, routerVars,
                 chatVars, wireVars,
    metricsVars,
    selVars,
    healthVars,
    waitVars,
    lockVars,
    beatVars,
    streamVars>>
exceptBucket == <<cacheVars, limiterVars, breakerVars, retryVars, routerVars,
                  chatVars, wireVars,
    metricsVars,
    selVars,
    healthVars,
    waitVars,
    lockVars,
    beatVars,
    streamVars>>
exceptLock == <<cacheVars, limiterVars, breakerVars, retryVars, routerVars,
                chatVars, wireVars,
    metricsVars,
    selVars,
    healthVars,
    waitVars,
    beatVars,
    streamVars>>
exceptLimiter == <<cacheVars, bucketVars, breakerVars, retryVars, routerVars,
                   chatVars, wireVars,
    metricsVars,
    selVars,
    healthVars,
    waitVars,
    lockVars,
    beatVars,
    streamVars>>
exceptWait == <<cacheVars, bucketVars, breakerVars, retryVars, routerVars,
                chatVars, wireVars,
    metricsVars,
    selVars,
    healthVars,
    lockVars,
    beatVars,
    streamVars>>
exceptBreaker == <<cacheVars, bucketVars, limiterVars, retryVars, routerVars,
                   chatVars, wireVars,
    metricsVars,
    selVars,
    healthVars,
    waitVars,
    lockVars,
    beatVars,
    streamVars>>
\* with_retry works on the breaker of its service
exceptRetry == <<cacheVars, bucketVars, limiterVars, breakerRet, breakerOp,
                 streak, stateBefore, routerVars, chatVars, wireVars,
    metricsVars,
    selVars,
    healthVars,
    waitVars,
    lockVars,
    beatVars,
    streamVars>>
\* handle_chat works on the router and on the cache
exceptChat == <<bucketVars, limiterVars, breakerVars, retryVars, wireVars,
    metricsVars,
    selVars,
    healthVars,
    waitVars,
    lockVars,
    beatVars,
    streamVars>>
exceptIpc == <<cacheVars, bucketVars, limiterVars, breakerVars, retryVars,
               routerVars, chatVars, codecVars, keyVars,
    metricsVars,
    selVars,
    healthVars,
    waitVars,
    lockVars,
    beatVars,
    streamVars>>
\* the heartbeat calls work on the connection and on their own record
exceptBeat == <<cacheVars, bucketVars, limiterVars, breakerVars, retryVars,
                routerVars, chatVars, codecVars, keyVars,
    metricsVars,
    selVars,
    healthVars,
    waitVars,
    lockVars,
    streamVars>>
exceptCodec == <<cacheVars, bucketVars, limiterVars, breakerVars, retryVars,
                 routerVars, chatVars, ipcVars, keyVars,
    metricsVars,
    selVars,
    healthVars,
    waitVars,
    lockVars,
    beatVars,
    streamVars>>
\* _send_message works on the connection and on the record of the senders
exceptStream == <<cacheVars, bucketVars, limiterVars, breakerVars, retryVars,
                 routerVars, chatVars, ipcVars, keyVars,
    metricsVars,
    selVars,
    healthVars,
    waitVars,
    lockVars,
    beatVars>>
exceptKey == <<cacheVars, bucketVars, limiterVars, breakerVars, retryVars,
               routerVars, chatVars, ipcVars, codecVars,
    metricsVars,
    selVars,
    healthVars,
    waitVars,
    lockVars,
    beatVars,
    streamVars>>
exceptMetrics == <<cacheVars, bucketVars, limiterVars, breakerVars, retryVars,
                   routerVars, chatVars, wireVars,
    selVars,
    healthVars,
    waitVars,
    lockVars,
    beatVars,
    streamVars>>
exceptSel == <<cacheVars, bucketVars, limiterVars, breakerVars, retryVars,
               routerVars, chatVars, wireVars, metricsVars,
    healthVars,
    waitVars,
    lockVars,
    beatVars,
    streamVars>>
exceptHealth == <<cacheVars, bucketVars, limiterVars, breakerVars, retryVars,
                  chatVars, wireVars, metricsVars, selVars,
    waitVars,
    lockVars,
    beatVars,
    streamVars>>

\* ------------------------------------------------------------------ bounds
MaxTime == 2
MaxCacheOps == 4
MaxTtlArg == 1
MaxBucketOps == 3
MaxConsume == 5
MaxLimiterOps == 3
MaxWaitTime == 3
MaxFailures == 6
MaxRetryTime == 7
MaxCalls == 2
MaxChatReqs == 2
MaxChatTime == 300
MaxFrames == 2
MaxKeyEvals == 2
MaxMetricsTime == 400
MaxCached == 2
MaxHealthTime == 450
MaxHealthCalls == 5
MaxFallbackCalls == 4
MaxRouteCalls == 1
MaxModelFailures == 3
MaxSuccesses == 1
MaxRouteTime == 301
MaxSends == 3
FlushChunk == 6
MaxBeatTime == 90
\* fallbacks[:3]
MaxFallbacks == 3
NoTtl == -1
NoTime == -1

\* ------------------------------------------------------------- generic
Min(a, b) == IF a <= b THEN a ELSE b

Range(s) == {s[i] : i \in DOMAIN s}

RemoveAt(s, i) == SubSeq(s, 1, i - 1) \o SubSeq(s, i + 1, Len(s))

\* time.time() read one second later
Tick ==
    /\ now < MaxTime
    /\ now' = now + 1
    /\ UNCHANGED <<cacheVars, bucketVars, limiterVars, breakerVars, retryVars,
                   routerVars, chatVars, wireVars,
                   metricsVars,
                   selVars,
                   healthVars,
                   waitVars,
                   lockVars,
                   beatVars,
                   streamVars>>

\* =====================================================================
\* cache/cache_manager.py
\* =====================================================================
Keys == {"A", "B", "C"}
Values == {"v1", "v2"}
TtlArgs == {NoTtl, 0, MaxTtlArg}

\* A CacheEntry is [key, value, created_at, ttl]; accessed_at and
\* access_count, which touch() writes and nothing reads, are left out.

\* CacheConfig.max_size and CacheConfig.ttl_seconds of the modelled instance
max_size == 2
ttl_seconds == 1

\* CacheEntry.is_expired
is_expired(entry, t) == t - entry.created_at > entry.ttl

CacheKeys(c) == {c[i].key : i \in DOMAIN c}

CacheIndex(c, key) == CHOOSE i \in DOMAIN c : c[i].key = key

CacheLookup(c, key) == c[CacheIndex(c, key)]

\* OrderedDict.__setitem__: a present key keeps its place, a new key goes last
DictSet(c, key, entry) ==
    IF key \in CacheKeys(c)
    THEN [c EXCEPT ![CacheIndex(c, key)] = entry]
    ELSE Append(c, entry)

\* OrderedDict.__delitem__
DictDel(c, key) ==
    IF key \in CacheKeys(c) THEN RemoveAt(c, CacheIndex(c, key)) ELSE c

\* OrderedDict.move_to_end
move_to_end(c, key) == Append(DictDel(c, key), CacheLookup(c, key))

\* os.path.exists / os.remove of the key's file, guarded by storage_type
RemoveFile(f, key) ==
    IF cacheCfg.storage_type = "file" THEN [f EXCEPT ![key] = <<>>] ELSE f

\* CacheManager._load_from_file: <<>> for None
LoadFromFile(key) ==
    IF files[key] = <<>> THEN <<>>
    ELSE IF is_expired(files[key][1], now) THEN <<>>
    ELSE files[key]

\* A slip in _evict_lru: popitem() takes the newest entry
evict_newest(c) == [key |-> c[Len(c)].key, rest |-> SubSeq(c, 1, Len(c) - 1)]

\* CacheManager._evict_lru: popitem(last=False) takes the oldest entry
evict_lru(c) == [key |-> Head(c).key, rest |-> Tail(c)]

\* The ttl a new entry gets: `ttl or self.config.ttl_seconds`
EntryTtl(ttl) == IF ttl = NoTtl \/ ttl = 0 THEN ttl_seconds ELSE ttl

NewEntry(key, value, ttl) ==
    [key |-> key, value |-> value, created_at |-> now, ttl |-> EntryTtl(ttl)]

\* history: the ttl argument that stored key's entry, while c still holds it
StoredTtl(c, key) == IF key \in CacheKeys(c) THEN setTtl[key] ELSE NoTtl

\* history: keys by recency after a call that left the map as c and that
\* removed or hit the keys in moved
NextRecency(c, moved) ==
    LET kept == SelectSeq(recency, LAMBDA k : k \in CacheKeys(c) /\ k \notin moved)
        fresh == SelectSeq(c, LAMBDA e : e.key \notin Range(kept))
    IN  kept \o [i \in DOMAIN fresh |-> fresh[i].key]

CacheCalled(ret) ==
    /\ cacheOps' = cacheOps + 1
    /\ cacheRet' = ret

\* CacheManager.get
cache_get(key) ==
    /\ UNCHANGED <<cacheCfg, evictions>>
    /\ IF ~cacheCfg.enabled
       THEN /\ UNCHANGED <<cache, files, hits, misses, recency>>
            /\ CacheCalled("None")
       ELSE LET inMem  == key \in CacheKeys(cache)
                loaded == IF cacheCfg.storage_type = "file"
                          THEN LoadFromFile(key) ELSE <<>>
                miss1  == IF inMem THEN misses ELSE misses + 1
            IN  IF ~inMem /\ loaded = <<>>
                THEN /\ misses' = miss1
                     /\ UNCHANGED <<cache, files, hits, recency>>
                     /\ CacheCalled("None")
                ELSE LET c1    == IF inMem THEN cache
                                  ELSE DictSet(cache, key, loaded[1])
                         entry == CacheLookup(c1, key)
                     IN  IF is_expired(entry, now)
                         THEN \* await self.delete(key)
                              /\ cache' = DictDel(c1, key)
                              /\ files' = RemoveFile(files, key)
                              /\ misses' = miss1 + 1
                              /\ hits' = hits
                              /\ recency' = NextRecency(cache', {key})
                              /\ CacheCalled("None")
                         ELSE \* entry.touch(), then move_to_end
                              /\ cache' = move_to_end(c1, key)
                              /\ hits' = hits + 1
                              /\ misses' = miss1
                              /\ files' = files
                              /\ recency' = NextRecency(cache', {key})
                              /\ CacheCalled(entry.value)
    /\ setTtl' = [k \in Keys |-> StoredTtl(cache', k)]

\* a caller awaits get(key)
CacheGet(key) ==
    /\ cacheOps < MaxCacheOps
    /\ cache_get(key)
    /\ UNCHANGED <<now, exceptCache>>

\* CacheManager.set; saved: whether _save_to_file managed to write the file
cache_set(key, value, ttl, saved) ==
    /\ UNCHANGED <<cacheCfg, hits, misses>>
    /\ IF ~cacheCfg.enabled
       THEN /\ UNCHANGED <<cache, files, evictions, recency, setTtl>>
            /\ CacheCalled("None")
       ELSE LET full    == Len(cache) >= max_size /\ cache # <<>>
                evicted == IF full THEN evict_lru(cache).key ELSE ""
                c1      == IF full THEN evict_lru(cache).rest ELSE cache
                f1      == IF full THEN RemoveFile(files, evicted) ELSE files
                entry   == NewEntry(key, value, ttl)
            IN  /\ cache' = DictSet(c1, key, entry)
                /\ evictions' = IF full THEN evictions + 1 ELSE evictions
                /\ files' = IF cacheCfg.storage_type = "file" /\ saved
                            THEN [f1 EXCEPT ![key] = <<entry>>] ELSE f1
                /\ recency' = NextRecency(cache', {evicted})
                /\ setTtl' = [k \in Keys |->
                                IF k = key THEN ttl ELSE StoredTtl(cache', k)]
                /\ CacheCalled("None")

\* a caller awaits set(key, value, ttl)
CacheSet(key, value, ttl, saved) ==
    /\ cacheOps < MaxCacheOps
    /\ cache_set(key, value, ttl, saved)
    /\ UNCHANGED <<now, exceptCache>>

\* CacheManager.delete
CacheDelete(key) ==
    /\ cacheOps < MaxCacheOps
    /\ UNCHANGED <<now, exceptCache, cacheCfg, hits, misses, evictions>>
    /\ cache' = DictDel(cache, key)
    /\ files' = RemoveFile(files, key)
    /\ recency' = NextRecency(cache', {})
    /\ setTtl' = [k \in Keys |-> StoredTtl(cache', k)]
    /\ CacheCalled("None")

\* CacheManager.clear
CacheClear ==
    /\ cacheOps < MaxCacheOps
    /\ UNCHANGED <<now, exceptCache, cacheCfg>>
    /\ setTtl' = [k \in Keys |-> NoTtl]
    /\ cache' = <<>>
    /\ hits' = 0 /\ misses' = 0 /\ evictions' = 0
    /\ files' = IF cacheCfg.storage_type = "file"
                THEN [k \in Keys |-> <<>>] ELSE files
    /\ recency' = <<>>
    /\ CacheCalled("None")

\* CacheManager.cleanup_expired
CacheCleanupExpired ==
    /\ cacheOps < MaxCacheOps
    /\ UNCHANGED <<now, exceptCache, cacheCfg, hits, misses, evictions>>
    /\ LET expired_keys == {e.key : e \in {x \in Range(cache) : is_expired(x, now)}}
       IN  /\ cache' = SelectSeq(cache, LAMBDA e : e.key \notin expired_keys)
           /\ files' = IF cacheCfg.storage_type = "file"
                       THEN [k \in Keys |->
                               IF k \in expired_keys THEN <<>> ELSE files[k]]
                       ELSE files
           /\ recency' = NextRecency(cache', {})
           /\ setTtl' = [k \in Keys |-> StoredTtl(cache', k)]
           /\ CacheCalled(ToString(Cardinality(expired_keys)))

\* CacheManager.__init__
CacheInit ==
    /\ cacheCfg \in [enabled : {TRUE}, storage_type : {"memory"}]
    /\ cache = <<>>
    /\ files = [k \in Keys |-> <<>>]
    /\ hits = 0 /\ misses = 0 /\ evictions = 0
    /\ cacheRet = "None"
    /\ cacheOps = 0
    /\ recency = <<>>
    /\ setTtl = [k \in Keys |-> NoTtl]

\* an entry file that an earlier run of the service, with the cache
\* enabled, left under storage_path
FileOf(key, value, created_at, ttl) ==
    <<[key |-> key, value |-> value, created_at |-> created_at, ttl |-> ttl]>>

NoFiles == [k \in Keys |-> <<>>]

\* CacheManager.__init__ for a config, with storage_path holding disk
CacheInitWith(enabled, storage_type, disk) ==
    /\ cacheCfg = [enabled |-> enabled, storage_type |-> storage_type]
    /\ cache = <<>>
    /\ files = disk
    /\ hits = 0 /\ misses = 0 /\ evictions = 0
    /\ cacheRet = "None"
    /\ cacheOps = 0
    /\ recency = <<>>
    /\ setTtl = [k \in Keys |-> NoTtl]

\* what storage_path holds when a service with the cache disabled starts:
\* nothing, or the files of an earlier run
DisabledDisks ==
    { NoFiles,
      [NoFiles EXCEPT !["A"] = FileOf("A", "v1", 0, ttl_seconds)],
      [NoFiles EXCEPT !["A"] = FileOf("A", "v1", 0, ttl_seconds),
                      !["B"] = FileOf("B", "v2", 0, MaxTtlArg + 1)] }

\* CacheManager.__init__ with CacheConfig(storage_type="file"): storage_path
\* holds nothing, or the files an earlier run of the service left there
CacheInitFile == \E disk \in DisabledDisks : CacheInitWith(TRUE, "file", disk)

\* CacheManager.__init__ with CacheConfig(enabled=False)
CacheInitDisabled ==
    \E storage_type \in {"memory", "file"} :
        \E disk \in (IF storage_type = "file" THEN DisabledDisks ELSE {NoFiles}) :
            CacheInitWith(FALSE, storage_type, disk)

\* =====================================================================
\* rate_limiter/token_bucket.py
\* =====================================================================
\* Token amounts are integers in units of 1/TokenUnit token, so that the
\* per-minute rates (requests_per_minute / 60) and the high-priority cost
\* (tokens / high_priority_multiplier) are exact; floating-point rounding is
\* not modelled.  A refill_rate is in units per second.
SecondsPerMinute == 60
high_priority_multiplier == 2
TokenUnit == SecondsPerMinute * high_priority_multiplier

\* get_wait_time's None
NoWait == <<>>

\* TokenBucket.__init__
TokenBucket(capacity, refill_rate) ==
    [capacity |-> capacity * TokenUnit, refill_rate |-> refill_rate,
     tokens |-> capacity * TokenUnit, last_refill |-> now]

\* A slip in _refill: the capacity cap is missing
refill_uncapped(b, t) ==
    [b EXCEPT !.tokens = b.tokens + (t - b.last_refill) * b.refill_rate,
              !.last_refill = t]

\* TokenBucket._refill at time t
refill(b, t) ==
    [b EXCEPT !.tokens = Min(b.capacity,
                             b.tokens + (t - b.last_refill) * b.refill_rate),
              !.last_refill = t]

\* A slip in consume: the tokens are taken without the test
consume_unchecked(b, n, t) ==
    LET r == refill(b, t)
    IN  [ok |-> r.tokens >= n, bucket |-> [r EXCEPT !.tokens = r.tokens - n]]

\* TokenBucket.consume at time t: the result and the bucket afterwards
consume(b, n, t) ==
    LET r == refill(b, t)
    IN  IF r.tokens >= n
        THEN [ok |-> TRUE, bucket |-> [r EXCEPT !.tokens = r.tokens - n]]
        ELSE [ok |-> FALSE, bucket |-> r]

\* TokenBucket.get_wait_time at time t: needed / refill_rate seconds, as the
\* pair <<needed, refill_rate>>
get_wait_time(b, n, t) ==
    LET r == refill(b, t)
    IN  IF r.tokens >= n
        THEN [wait |-> NoWait, bucket |-> r]
        ELSE [wait |-> <<n - r.tokens, r.refill_rate>>, bucket |-> r]

\* the buckets and the consume amounts of the stand-alone bucket
BucketConfigs ==
    { [capacity |-> MaxConsume, refill_rate |-> MaxConsume * TokenUnit],
      [capacity |-> 2, refill_rate |-> TokenUnit \div 3] }

ConsumeAmounts == {0, TokenUnit \div 2, TokenUnit, MaxConsume * TokenUnit}

BucketReturned(op, ok, tokens, wait) ==
    bucketRet' = [op |-> op, ok |-> ok, tokens |-> tokens, wait |-> wait]

\* a task calls consume(n): `async with self._lock` waits while another
\* task holds the lock
BucketConsume(n) ==
    /\ lock = "None"
    /\ Len(bucketLog) < MaxBucketOps
    /\ LET res == consume(bucket, n, now)
       IN  /\ bucket' = res.bucket
           /\ BucketReturned("consume", res.ok, res.bucket.tokens, NoWait)
           /\ bucketLog' = Append(bucketLog, [n |-> n, ok |-> res.ok, at |-> now])
    /\ UNCHANGED <<now, exceptBucket>>

\* a task calls get_tokens()
BucketGetTokens ==
    /\ lock = "None"
    /\ bucket' = refill(bucket, now)
    /\ BucketReturned("get_tokens", TRUE, bucket'.tokens, NoWait)
    /\ UNCHANGED <<now, exceptBucket, bucketLog>>

\* a task calls get_wait_time(n)
BucketGetWaitTime(n) ==
    /\ lock = "None"
    /\ LET res == get_wait_time(bucket, n, now)
       IN  /\ bucket' = res.bucket
           /\ BucketReturned("get_wait_time", res.wait = NoWait,
                             res.bucket.tokens, res.wait)
    /\ UNCHANGED <<now, exceptBucket, bucketLog>>

BucketInitWith(cfg) ==
    /\ bucket = TokenBucket(cfg.capacity, cfg.refill_rate)
    /\ bucketRet = [op |-> "None", ok |-> TRUE, tokens |-> 0, wait |-> NoWait]
    /\ bucketLog = <<>>

BucketInit == \E cfg \in BucketConfigs : BucketInitWith(cfg)

\* =====================================================================
\* rate_limiter/rate_limiter.py
\* =====================================================================
Clients == {"c1", "c2"}
Priorities == {"normal", "high"}
TokenArgs == {1, 2}

\* RateLimitConfig of the modelled instance
global_requests_per_second == 2
global_requests_per_minute == 5
global_burst_size == 4
client_requests_per_second == 1
client_requests_per_minute == 3
client_burst_size == 2

\* requests_per_minute / 60, in units per second
PerMinuteRate(rpm) == (rpm * TokenUnit) \div SecondsPerMinute

\* The buckets in the order check_rate_limit consumes from them, but with
\* the client's own buckets first
BucketOrderClientFirst ==
    <<"client_second", "client_minute", "global_second", "global_minute">>

\* The buckets in the order check_rate_limit consumes from them
BucketOrder ==
    <<"global_second", "global_minute", "client_second", "client_minute">>

\* RateLimiter._get_client_bucket, and the two global buckets of __init__
NewBucket(which) ==
    CASE which = "global_second" ->
           TokenBucket(global_burst_size, global_requests_per_second * TokenUnit)
      [] which = "global_minute" ->
           TokenBucket(global_requests_per_minute,
                       PerMinuteRate(global_requests_per_minute))
      [] which = "client_second" ->
           TokenBucket(client_burst_size, client_requests_per_second * TokenUnit)
      [] which = "client_minute" ->
           TokenBucket(client_requests_per_minute,
                       PerMinuteRate(client_requests_per_minute))

IsClientBucket(which) == which \in {"client_second", "client_minute"}

\* the bucket a check uses: a client's bucket is created on first use
GetBucket(bs, which, client) ==
    IF IsClientBucket(which)
    THEN IF bs[which][client] = <<>> THEN NewBucket(which)
                                     ELSE bs[which][client][1]
    ELSE bs[which]

PutBucket(bs, which, client, b) ==
    IF IsClientBucket(which)
    THEN [bs EXCEPT ![which][client] = <<b>>]
    ELSE [bs EXCEPT ![which] = b]

\* the reason check_rate_limit passes to _record_rejection
RejectionReason(which) ==
    CASE which = "global_second" -> "global_second_limit"
      [] which = "global_minute" -> "global_minute_limit"
      [] which = "client_second" -> "client_second_limit"
      [] which = "client_minute" -> "client_minute_limit"

\* check_rate_limit from its i-th bucket check on: each check consumes, and
\* the first bucket that refuses ends the call with its get_wait_time
RECURSIVE CheckBuckets(_, _, _, _)
CheckBuckets(bs, i, client, effective_tokens) ==
    IF i > Len(BucketOrder)
    THEN [allowed |-> TRUE, wait |-> NoWait, reason |-> "None", buckets |-> bs]
    ELSE LET which == BucketOrder[i]
             checked(b, res) ==
                 LET w == get_wait_time(res.bucket, effective_tokens, now)
                 IN  IF res.ok
                     THEN CheckBuckets(PutBucket(b, which, client, res.bucket),
                                       i + 1, client, effective_tokens)
                     ELSE [allowed |-> FALSE, wait |-> w.wait,
                           reason |-> RejectionReason(which),
                           buckets |-> PutBucket(b, which, client, w.bucket)]
         IN  CHOOSE out \in
               { checked(b, res) :
                   b \in {bs},
                   res \in {consume(GetBucket(bs, which, client),
                                    effective_tokens, now)} } : TRUE

\* tokens, or tokens / high_priority_multiplier for a high-priority request
EffectiveTokens(priority, tokens) ==
    IF limCfg.enable_priority /\ priority = "high"
    THEN (tokens * TokenUnit) \div high_priority_multiplier
    ELSE tokens * TokenUnit

\* client_stats[client], created by the defaultdict on first use
StatsOf(stats, client) ==
    IF stats[client] = <<>> THEN [allowed |-> 0, rejected |-> 0]
                            ELSE stats[client][1]

\* RateLimiter.check_rate_limit
check_rate_limit(client, priority, tokens) ==
    /\ limCall' = [client |-> client, priority |-> priority, tokens |-> tokens]
    /\ limCfg' = limCfg
    /\ IF ~limCfg.enabled
       THEN /\ limRet' = [allowed |-> TRUE, wait |-> NoWait]
            /\ limReason' = "None"
            /\ UNCHANGED <<limBuckets, total_requests, rejected_requests,
                           client_stats>>
       ELSE /\ total_requests' = total_requests + 1
            /\ LET res == CheckBuckets(limBuckets, 1, client,
                                       EffectiveTokens(priority, tokens))
                   st == StatsOf(client_stats, client)
               IN  /\ limBuckets' = res.buckets
                   /\ limRet' = [allowed |-> res.allowed, wait |-> res.wait]
                   /\ limReason' = res.reason
                   /\ IF res.allowed
                      THEN /\ client_stats' = [client_stats EXCEPT ![client] =
                                 <<[st EXCEPT !.allowed = st.allowed + 1]>>]
                           /\ UNCHANGED rejected_requests
                      ELSE \* _record_rejection
                           /\ rejected_requests' = rejected_requests + 1
                           /\ client_stats' = [client_stats EXCEPT ![client] =
                                 <<[st EXCEPT !.rejected = st.rejected + 1]>>]

\* a caller awaits check_rate_limit
CheckRateLimit(client, priority, tokens) ==
    /\ limCfg.enabled => total_requests < MaxLimiterOps
    /\ check_rate_limit(client, priority, tokens)
    /\ UNCHANGED <<now, exceptLimiter>>

\* RateLimiter.reset_client
ResetClient(client) ==
    /\ limBuckets' = [limBuckets EXCEPT !["client_second"][client] = <<>>,
                                        !["client_minute"][client] = <<>>]
    /\ client_stats' = [client_stats EXCEPT ![client] = <<>>]
    /\ UNCHANGED <<now, exceptLimiter, limCfg, total_requests,
                   rejected_requests, limCall, limRet, limReason>>

\* RateLimiter.__init__
LimiterInitWith(enabled, enable_priority) ==
    /\ limCfg = [enabled |-> enabled, enable_priority |-> enable_priority]
    /\ limBuckets = [global_second |-> NewBucket("global_second"),
                     global_minute |-> NewBucket("global_minute"),
                     client_second |-> [c \in Clients |-> <<>>],
                     client_minute |-> [c \in Clients |-> <<>>]]
    /\ total_requests = 0
    /\ rejected_requests = 0
    /\ client_stats = [c \in Clients |-> <<>>]
    /\ limCall = [client |-> "None", priority |-> "None", tokens |-> 0]
    /\ limRet = [allowed |-> TRUE, wait |-> NoWait]
    /\ limReason = "None"

LimiterInit == \E e \in BOOLEAN, p \in BOOLEAN : LimiterInitWith(e, p)

\* =====================================================================
\* errors/error_handler.py: CircuitBreaker
\* =====================================================================
\* ErrorConfig.failure_threshold and ErrorConfig.recovery_timeout of the
\* modelled instance
failure_threshold == 5
recovery_timeout == 2

\* CircuitBreaker.__init__(failure_threshold, recovery_timeout)
NewBreakerWith(threshold, timeout) ==
    [failure_threshold |-> threshold, recovery_timeout |-> timeout,
     failure_count |-> 0, last_failure_time |-> NoTime, state |-> "closed"]

\* the breaker ErrorHandler makes for a service, from its ErrorConfig
NewBreaker == NewBreakerWith(failure_threshold, recovery_timeout)

\* CircuitBreaker.record_success
record_success(b) == [b EXCEPT !.failure_count = 0, !.state = "closed"]

\* A slip in record_failure: the threshold is tested on the count before
\* the failure is added
record_failure_late(b, t) ==
    [b EXCEPT !.failure_count = b.failure_count + 1,
              !.last_failure_time = t,
              !.state = IF b.failure_count >= b.failure_threshold
                        THEN "open" ELSE b.state]

\* CircuitBreaker.record_failure at time t
record_failure(b, t) ==
    [b EXCEPT !.failure_count = b.failure_count + 1,
              !.last_failure_time = t,
              !.state = IF b.failure_count + 1 >= b.failure_threshold
                        THEN "open" ELSE b.state]

\* A slip in can_attempt: the timeout must be exceeded, not reached
can_attempt_strict(b, t) ==
    IF b.state = "open" /\ t - b.last_failure_time <= b.recovery_timeout
    THEN [ok |-> FALSE, breaker |-> b]
    ELSE [ok |-> TRUE,
          breaker |-> IF b.state = "open" THEN [b EXCEPT !.state = "half-open"]
                                          ELSE b]

\* CircuitBreaker.can_attempt at time t: the result and the breaker afterwards
can_attempt(b, t) ==
    IF b.state = "closed" THEN [ok |-> TRUE, breaker |-> b]
    ELSE IF b.state = "open"
         THEN IF t - b.last_failure_time >= b.recovery_timeout
              THEN [ok |-> TRUE, breaker |-> [b EXCEPT !.state = "half-open"]]
              ELSE [ok |-> FALSE, breaker |-> b]
         ELSE [ok |-> TRUE, breaker |-> b]

\* a caller records a success
BreakerRecordSuccess ==
    /\ breaker' = record_success(breaker)
    /\ breakerOp' = "record_success"
    /\ streak' = 0
    /\ stateBefore' = breaker.state
    /\ UNCHANGED <<now, exceptBreaker, breakerRet>>

\* a caller records a failure
BreakerRecordFailure ==
    /\ breaker.failure_count < MaxFailures
    /\ breaker' = record_failure(breaker, now)
    /\ breakerOp' = "record_failure"
    /\ streak' = streak + 1
    /\ stateBefore' = breaker.state
    /\ UNCHANGED <<now, exceptBreaker, breakerRet>>

\* a caller asks can_attempt()
BreakerCanAttempt ==
    /\ LET res == can_attempt(breaker, now)
       IN  /\ breaker' = res.breaker
           /\ breakerRet' = res.ok
    /\ breakerOp' = "can_attempt"
    /\ stateBefore' = breaker.state
    /\ UNCHANGED <<now, exceptBreaker, streak>>

BreakerInitWith(threshold) ==
    /\ breaker = NewBreakerWith(threshold, recovery_timeout)
    /\ breakerRet = TRUE
    /\ breakerOp = "None"
    /\ streak = 0
    /\ stateBefore = "None"

BreakerInit == BreakerInitWith(failure_threshold)

\* the failure_threshold values a breaker is constructed with
Thresholds == 1 .. 3

BreakerInitAny == \E threshold \in Thresholds : BreakerInitWith(threshold)

\* =====================================================================
\* errors/error_handler.py: ErrorHandler.with_retry
\* =====================================================================
\* ErrorConfig.max_retries, retry_delay and retry_backoff
max_retries == 3
retry_delay == 1
retry_backoff == 2

Tasks == {"t1", "t2"}

\* what the wrapped operation can raise
OpErrors == {"AdapterError", "ValidationError", "RateLimitError"}

\* A slip in the backoff: the delay grows linearly
DelayLinear(attempt) == retry_delay * (attempt + 1)

\* retry_delay * (retry_backoff ** attempt)
Delay(attempt) == retry_delay * retry_backoff ^ attempt

NoError == [kind |-> "None", attempt |-> 0]

\* a task that is not in a wrapped call
IdleCaller ==
    [pc |-> "idle", attempt |-> 0, wake |-> 0, invoked |-> 0, sleeps |-> <<>>,
     retried |-> 0, errs |-> <<>>, result |-> "None", raised |-> NoError]

\* the wrapped function is called: wrapper() is entered
RetryStart(t) ==
    /\ callers[t].pc \in {"idle", "done"}
    /\ rtCalls < MaxCalls
    /\ rtCalls' = rtCalls + 1
    /\ callers' = [callers EXCEPT ![t] = [IdleCaller EXCEPT !.pc = "attempt"]]
    /\ UNCHANGED <<now, exceptRetry, breaker, rtCfg, retries, total_errors>>

no_retry_validation(kind) == kind = "ValidationError"

\* isinstance(e, (ValidationError, RateLimitError)): not retried
no_retry(kind) == kind \in {"ValidationError", "RateLimitError"}

\* the except branch for the exception of kind `kind` raised in attempt
\* callers[t].attempt, on the breaker b
HandleError(t, kind, b) ==
    LET c == callers[t]
        e == [kind |-> kind, attempt |-> c.attempt]
        c1 == [c EXCEPT !.errs = Append(c.errs, kind)]
    IN  /\ total_errors' = total_errors + 1
        /\ breaker' = IF rtCfg.breaker_on THEN record_failure(b, now) ELSE b
        /\ IF no_retry(kind)
           THEN /\ callers' = [callers EXCEPT ![t] =
                     [c1 EXCEPT !.pc = "done", !.result = "raised", !.raised = e]]
                /\ UNCHANGED retries
           ELSE IF c.attempt < max_retries /\ rtCfg.enable_retry
                THEN /\ retries' = retries + 1
                     /\ callers' = [callers EXCEPT ![t] =
                          [c1 EXCEPT !.pc = "sleeping",
                                     !.wake = now + Delay(c.attempt),
                                     !.sleeps = Append(c.sleeps, Delay(c.attempt)),
                                     !.retried = c.retried + 1]]
                ELSE /\ callers' = [callers EXCEPT ![t] =
                          [c1 EXCEPT !.pc = "done", !.result = "raised",
                                     !.raised = e]]
                     /\ UNCHANGED retries

\* one pass of the for loop up to the await of the wrapped operation: the
\* breaker check, then either the CIRCUIT_BREAKER_OPEN error or the call
RetryAttempt(t) ==
    /\ callers[t].pc = "attempt"
    /\ LET res == IF rtCfg.breaker_on THEN can_attempt(breaker, now)
                                      ELSE [ok |-> TRUE, breaker |-> breaker]
       IN  IF res.ok
           THEN /\ breaker' = res.breaker
                /\ callers' = [callers EXCEPT ![t].pc = "calling",
                                              ![t].invoked = @ + 1]
                /\ UNCHANGED <<retries, total_errors>>
           ELSE HandleError(t, "CIRCUIT_BREAKER_OPEN", res.breaker)
    /\ UNCHANGED <<now, exceptRetry, rtCfg, rtCalls>>

\* the wrapped operation returns
RetryOpReturns(t) ==
    /\ callers[t].pc = "calling"
    /\ breaker' = IF rtCfg.breaker_on THEN record_success(breaker) ELSE breaker
    /\ callers' = [callers EXCEPT ![t].pc = "done", ![t].result = "ok"]
    /\ UNCHANGED <<now, exceptRetry, rtCfg, rtCalls, retries, total_errors>>

\* the wrapped operation raises
RetryOpRaises(t, kind) ==
    /\ callers[t].pc = "calling"
    /\ HandleError(t, kind, breaker)
    /\ UNCHANGED <<now, exceptRetry, rtCfg, rtCalls>>

\* asyncio.sleep(delay) is over: the loop goes on with the next attempt
RetryWake(t) ==
    /\ callers[t].pc = "sleeping"
    /\ now >= callers[t].wake
    /\ callers' = [callers EXCEPT ![t].pc = "attempt", ![t].attempt = @ + 1]
    /\ UNCHANGED <<now, exceptRetry, breaker, rtCfg, rtCalls, retries,
                   total_errors>>

\* time.time() read one second later, while with_retry calls are made
RetryTick ==
    /\ now < MaxRetryTime
    /\ now' = now + 1
    /\ UNCHANGED <<exceptRetry, breaker, retryVars>>

\* ErrorHandler.__init__
RetryInitWith(enable_retry, breaker_on) ==
    /\ rtCfg = [enable_retry |-> enable_retry, breaker_on |-> breaker_on]
    /\ callers = [t \in Tasks |-> IdleCaller]
    /\ retries = 0
    /\ total_errors = 0
    /\ rtCalls = 0

RetryInit == \E r \in BOOLEAN, b \in BOOLEAN : RetryInitWith(r, b)

\* =====================================================================
\* router/model_selector.py
\* =====================================================================
\* Scores are integers in hundredths; quality_score and speed_score are in
\* tenths and cost_per_1k_tokens in thousandths of a dollar.
Cap(provider, task_types, cost, speed, quality) ==
    [provider |-> provider, task_types |-> task_types, cost |-> cost,
     speed |-> speed, quality |-> quality]

\* ModelSelector.MODEL_CAPABILITIES and the order of its keys
ModelOrder ==
    <<"gemma3:12b", "llama3:8b", "codellama:13b", "openai/gpt-3.5-turbo",
      "openai/gpt-4", "anthropic/claude-3-haiku",
      "cognitivecomputations/dolphin-mistral-24b-venice-edition:free">>

MODEL_CAPABILITIES ==
    "gemma3:12b" :> Cap("ollama", {"chat", "general", "creative"}, 0, 80, 70)
    @@ "llama3:8b" :> Cap("ollama", {"chat", "general"}, 0, 90, 65)
    @@ "codellama:13b" :> Cap("ollama", {"code", "analysis"}, 0, 70, 80)
    @@ "openai/gpt-3.5-turbo" :>
         Cap("openrouter", {"chat", "general", "creative", "analysis"}, 2, 80, 80)
    @@ "openai/gpt-4" :>
         Cap("openrouter", {"chat", "code", "analysis", "math", "creative"},
             60, 50, 100)
    @@ "anthropic/claude-3-haiku" :>
         Cap("openrouter", {"chat", "general"}, 1, 90, 75)
    @@ "cognitivecomputations/dolphin-mistral-24b-venice-edition:free" :>
         Cap("openrouter", {"chat", "general", "creative"}, 0, 60, 70)

KnownModels == DOMAIN MODEL_CAPABILITIES

\* the model names requests can carry besides the known ones
OtherModels == {"gpt-4", "gpt-3.5-turbo", "mystery"}

AllModels == KnownModels \cup OtherModels

\* the names with "code" in model.lower()
CodeNamed == {"codellama:13b"}

\* TaskType values in the order of the keys of TASK_PATTERNS
TaskOrder == <<"code", "translation", "summarization", "creative", "analysis", "math">>

TaskTypes == Range(TaskOrder) \cup {"chat", "general"}

\* A text is the sequence of its tokens, which single spaces separate:
\* words, numbers, operators, and the opening line of a fenced code block
\* ("~~~" and "~~~python" stand for the three backquotes, the language and
\* the newline that ends the line).
FenceTokens == {"~~~", "~~~python"}
OperatorTokens == {"+", "="}
NumberTokens == {"2", "3"}

\* the \w+ words of a token, as \b delimits them
words_in(tok) ==
    IF tok = "~~~python" THEN {"python"}
    ELSE IF tok \in FenceTokens \cup OperatorTokens THEN {}
    ELSE {tok}

\* str.lower() of a token
lower(tok) ==
    IF tok = "Debug" THEN "debug"
    ELSE IF tok = "WRITE" THEN "write"
    ELSE IF tok = "Translate" THEN "translate"
    ELSE tok

\* the atoms of the patterns besides the literal words
AnyWord == "\\w+"
AnyNumber == "\\d+"
AnyOperator == "[+-*/]"
AnyFence == "~~~\\w*\\n"

atom_matches(atom, tok) ==
    IF atom = AnyWord THEN words_in(tok) # {} /\ tok \notin FenceTokens
    ELSE IF atom = AnyNumber THEN tok \in NumberTokens
    ELSE IF atom = AnyOperator THEN tok = "+"
    ELSE IF atom = AnyFence THEN tok \in FenceTokens
    ELSE atom \in words_in(tok)

\* a pattern is the set of its alternatives, each a sequence of atoms
OneOf(words) == {<<w>> : w \in words}

\* ModelSelector.TASK_PATTERNS
TASK_PATTERNS ==
    [code |->
        <<OneOf({"code", "program", "function", "script", "debug",
                 "implement", "algorithm"}),
          OneOf({"python", "javascript", "java", "c++", "golang", "rust"}),
          {<<AnyFence>>}>>,
     translation |->
        <<OneOf({"translate", "translation", "traduire", "traducir"}),
          {<<"from", AnyWord, "to", AnyWord>>, <<"into", AnyWord>>}>>,
     summarization |->
        <<OneOf({"summarize", "summary", "tldr", "brief", "overview"}),
          {<<"main", "points">>, <<"key", "points">>, <<"highlights">>}>>,
     creative |->
        <<OneOf({"write", "create", "compose", "imagine", "story", "poem",
                 "creative"}),
          OneOf({"fiction", "narrative", "character", "plot"})>>,
     analysis |->
        <<OneOf({"analyze", "analysis", "evaluate", "assess", "examine"}),
          {<<"pros", "and", "cons">>, <<"compare">>, <<"contrast">>}>>,
     math |->
        <<OneOf({"calculate", "solve", "equation", "math", "formula"}),
          {<<AnyNumber, AnyOperator, AnyNumber>>},
          OneOf({"derivative", "integral", "matrix", "vector"})>>]

\* re.search(pattern, text)
re_search(pattern, text) ==
    \E alt \in pattern :
        \E i \in 1..(Len(text) - Len(alt) + 1) :
            \A k \in 1..Len(alt) : atom_matches(alt[k], text[i + k - 1])

\* a message dict: role and content are the keys it may have
Msg(role, text) == [role |-> role, content |-> text]

RECURSIVE Join(_)
Join(texts) ==
    IF texts = <<>> THEN <<>> ELSE Head(texts) \o Join(Tail(texts))

\* " ".join(content of the user messages).lower()
combined_text(messages) ==
    LET user == SelectSeq(messages,
                    LAMBDA m : "role" \in DOMAIN m /\ m.role = "user")
        joined == Join([i \in DOMAIN user |->
                           IF "content" \in DOMAIN user[i]
                           THEN user[i].content ELSE <<>>])
    IN [i \in DOMAIN joined |-> lower(joined[i])]

\* task_scores: the number of patterns of each task type that match
PatternMatches(text) ==
    [t \in Range(TaskOrder) |->
        Cardinality({i \in DOMAIN TASK_PATTERNS[t] :
                        re_search(TASK_PATTERNS[t][i], text)})]

max_task_last(sc) ==
    TaskOrder[CHOOSE i \in DOMAIN TaskOrder :
                /\ \A j \in DOMAIN TaskOrder : sc[TaskOrder[j]] <= sc[TaskOrder[i]]
                /\ \A j \in (i + 1)..Len(TaskOrder) :
                      sc[TaskOrder[j]] < sc[TaskOrder[i]]]

\* max(task_scores.items(), key=score): the first type with the highest
\* score
max_task(sc) ==
    TaskOrder[CHOOSE i \in DOMAIN TaskOrder :
                /\ \A j \in DOMAIN TaskOrder : sc[TaskOrder[j]] <= sc[TaskOrder[i]]
                /\ \A j \in 1..(i - 1) : sc[TaskOrder[j]] < sc[TaskOrder[i]]]

\* the task type analyze_task detects in a combined text
detect_task(text) ==
    LET sc == PatternMatches(text)
    IN  IF sc[max_task(sc)] > 0 THEN max_task(sc) ELSE "general"

\* what analyze_task returns for messages: the cached type of a text is
\* the type detected for it
analyze_task(messages) == detect_task(combined_text(messages))

\* the conversations of the requests, by text
Tokens(text) ==
    IF text = "write python code" THEN <<"write", "python", "code">>
    ELSE <<text>>

\* the texts of the requests that reach the router's selector
RequestTexts == {"hello", "write python code"}

\* what the selector's analyze_task returns for the requests, by text
RequestTasks ==
    [text \in RequestTexts |-> analyze_task(<<Msg("user", Tokens(text))>>)]

ModelScoreQuality(model, task_type, prefs) ==
    IF model \notin KnownModels THEN 500
    ELSE MODEL_CAPABILITIES[model].quality * 20

\* the score select_model gives a model
ModelScore(model, task_type, prefs) ==
    IF model \notin KnownModels THEN 500
    ELSE LET cap == MODEL_CAPABILITIES[model]
         IN  cap.quality * 20
             + (IF prefs.cost_sensitive
                THEN IF cap.cost = 0 THEN 500 ELSE 0 - cap.cost
                ELSE 0)
             + (IF prefs.quality_priority THEN cap.quality * 30 ELSE 0)
             + (IF prefs.speed_priority THEN cap.speed * 20 ELSE 0)
             + (IF prefs.prefer_local /\ cap.provider = "ollama" THEN 300 ELSE 0)
             + (IF task_type = "code" /\ model \in CodeNamed THEN 300
                ELSE IF task_type = "creative" /\ cap.quality >= 80 THEN 200
                ELSE IF task_type = "math" /\ cap.quality >= 90 THEN 300
                ELSE 0)

\* ModelSelector.select_model: "None" when there is no available model
selector_select_model(task_type, available_models, prefs) ==
    IF available_models = <<>> THEN "None"
    ELSE LET supporting == SelectSeq(available_models,
                 LAMBDA m : m \in KnownModels
                            /\ task_type \in MODEL_CAPABILITIES[m].task_types)
             suitable == IF supporting = <<>> THEN available_models ELSE supporting
             score(i) == ModelScore(suitable[i], task_type, prefs)
             best == CHOOSE i \in DOMAIN suitable :
                       /\ \A j \in DOMAIN suitable : score(j) <= score(i)
                       /\ \A j \in 1..(i - 1) : score(j) < score(i)
         IN  suitable[best]

\* list.sort(key=quality_score, reverse=True): stable, best quality first
RECURSIVE SortByQuality(_)
SortByQuality(models) ==
    IF models = <<>> THEN <<>>
    ELSE LET q(m) == MODEL_CAPABILITIES[m].quality
             top == CHOOSE x \in {q(models[i]) : i \in DOMAIN models} :
                      \A i \in DOMAIN models : q(models[i]) <= x
         IN  SelectSeq(models, LAMBDA m : q(m) = top)
             \o SortByQuality(SelectSeq(models, LAMBDA m : q(m) # top))

\* ModelSelector.get_fallback_models
get_fallback_models(primary_model) ==
    IF primary_model \notin KnownModels THEN <<>>
    ELSE LET pt == MODEL_CAPABILITIES[primary_model].task_types
             similar == SelectSeq(ModelOrder,
                 LAMBDA m : /\ m # primary_model
                            /\ 2 * Cardinality(pt \cap MODEL_CAPABILITIES[m].task_types)
                                 >= Cardinality(pt))
             sorted == SortByQuality(similar)
         IN  SubSeq(sorted, 1, Min(MaxFallbacks, Len(sorted)))

\* =====================================================================
\* router/model_router.py
\* =====================================================================
\* ModelHealth.is_healthy: `failures >= 3` and `recovery_time = 300`
UnhealthyFailures == 3
HealthRecoveryTime == 300

\* RouterConfig preferences of the modelled instance (the defaults);
\* requests carry no routing_preferences in their metadata
RouterPrefs ==
    [cost_sensitive |-> TRUE, quality_priority |-> FALSE,
     speed_priority |-> FALSE, prefer_local |-> TRUE]

\* the adapters dict in the order its keys are inserted
AdapterOrder == <<"openai", "ollama", "openrouter">>

\* the sets of configured adapters
AdapterSets == {{"ollama", "openrouter"}, {"ollama"}}

\* the model names by what _get_adapter_for_model tests, in its order:
\* "/" in model; ":" in model or one of the short Ollama names;
\* startswith("gpt"); startswith("claude")
SlashNames ==
    {"openai/gpt-3.5-turbo", "openai/gpt-4", "anthropic/claude-3-haiku",
     "cognitivecomputations/dolphin-mistral-24b-venice-edition:free"}
ColonNames == {"gemma3:12b", "llama3:8b", "codellama:13b"}
GptNames == {"gpt-4", "gpt-3.5-turbo"}
ClaudeNames == {}

\* ModelHealth(): last_success and response_times, which only get_stats
\* reports, are left out
NewHealth == [failures |-> 0, successes |-> 0, last_failure |-> NoTime]

\* ModelHealth.is_healthy at time t (time.time() is never 0, so
\* `and self.last_failure` tests for None)
is_healthy(h, t) ==
    ~ ( /\ h.failures >= UnhealthyFailures
        /\ h.last_failure # NoTime
        /\ t - h.last_failure < HealthRecoveryTime )

record_success_keeping(h) == [h EXCEPT !.successes = h.successes + 1]

\* ModelHealth.record_success
health_record_success(h) ==
    [h EXCEPT !.successes = h.successes + 1, !.failures = 0]

\* ModelHealth.record_failure at time t
health_record_failure(h, t) ==
    [h EXCEPT !.failures = h.failures + 1, !.last_failure = t]

\* ModelRouter._get_adapter_for_model
get_adapter_for_model(model) ==
    IF model \in SlashNames
    THEN IF "openrouter" \in adapters THEN "openrouter" ELSE "None"
    ELSE IF model \in ColonNames
    THEN IF "ollama" \in adapters THEN "ollama" ELSE "None"
    ELSE IF model \in GptNames
    THEN IF "openai" \in adapters THEN "openai" ELSE "openrouter"
    ELSE IF model \in ClaudeNames
    THEN IF "anthropic" \in adapters THEN "anthropic" ELSE "openrouter"
    ELSE "None"

\* A slip in _is_model_available: the health of the model is not looked at
is_model_available_unchecked(health, model) ==
    get_adapter_for_model(model) # "None"

\* ModelRouter._is_model_available
is_model_available(health, model) ==
    /\ ~ (routerCfg.track_model_health /\ ~is_healthy(health[model], now))
    /\ get_adapter_for_model(model) # "None"

\* ModelRouter._get_available_models
get_available_models(health) ==
    LET ollama == IF "ollama" \in adapters
                  THEN <<"gemma3:12b", "llama3:8b", "codellama:13b">> ELSE <<>>
        openrouter == IF "openrouter" \in adapters
                      THEN <<"openai/gpt-3.5-turbo", "openai/gpt-4",
                             "anthropic/claude-3-haiku",
                             "cognitivecomputations/dolphin-mistral-24b-venice-edition:free">>
                      ELSE <<>>
        models == ollama \o openrouter
    IN  IF routerCfg.track_model_health
        THEN SelectSeq(models, LAMBDA m : is_healthy(health[m], now))
        ELSE models

\* ModelRouter._get_default_model; ok is false for the ValueError
get_default_model ==
    IF RouterPrefs.prefer_local /\ "ollama" \in adapters
    THEN [ok |-> TRUE, model |-> "gemma3:12b", adapter |-> "ollama"]
    ELSE IF "openrouter" \in adapters
    THEN [ok |-> TRUE, model |-> "openai/gpt-3.5-turbo", adapter |-> "openrouter"]
    ELSE IF adapters # {}
    THEN LET first == SelectSeq(AdapterOrder, LAMBDA a : a \in adapters)[1]
         IN  [ok |-> TRUE,
              model |-> IF first = "ollama" THEN "gemma3:12b"
                                            ELSE "openai/gpt-3.5-turbo",
              adapter |-> first]
    ELSE [ok |-> FALSE, model |-> "None", adapter |-> "None"]

\* ModelRouter.select_model for the conversation `text`: the pair returned
\* (ok false: it raised) and routing_stats afterwards
router_select_model(text, requested_model, health, stats) ==
    LET default == get_default_model @@ [stats |-> stats]
        wanted  == requested_model # "None"
    IN  IF ~routerCfg.enabled
        THEN IF wanted
             THEN [ok |-> TRUE, model |-> requested_model,
                   adapter |-> get_adapter_for_model(requested_model),
                   stats |-> stats]
             ELSE default
        ELSE IF wanted /\ get_adapter_for_model(requested_model) # "None"
                /\ is_model_available(health, requested_model)
        THEN [ok |-> TRUE, model |-> requested_model,
              adapter |-> get_adapter_for_model(requested_model),
              stats |-> stats]
        ELSE LET selected == selector_select_model(
                                 RequestTasks[text],
                                 get_available_models(health), RouterPrefs)
             IN  IF selected # "None"
                 THEN [ok |-> TRUE, model |-> selected,
                       adapter |-> get_adapter_for_model(selected),
                       stats |-> [stats EXCEPT ![selected].routed = @ + 1]]
                 ELSE default

\* the first fallback that is available: 0 when there is none
FirstAvailable(fallbacks, health) ==
    LET ok == {i \in DOMAIN fallbacks : is_model_available(health, fallbacks[i])}
    IN  IF ok = {} THEN 0 ELSE CHOOSE i \in ok : \A j \in ok : i <= j

\* ModelRouter.get_fallback_model: the pair returned (found false: None),
\* model_health and routing_stats afterwards
router_get_fallback_model(failed_model, health, stats) ==
    IF ~routerCfg.enable_fallback
    THEN [found |-> FALSE, model |-> "None", adapter |-> "None",
          health |-> health, stats |-> stats]
    ELSE LET h1 == [health EXCEPT ![failed_model] = health_record_failure(@, now)]
             fallbacks == get_fallback_models(failed_model)
             i == FirstAvailable(fallbacks, h1)
         IN  IF i # 0
             THEN [found |-> TRUE, model |-> fallbacks[i],
                   adapter |-> get_adapter_for_model(fallbacks[i]),
                   health |-> h1,
                   stats |-> [stats EXCEPT ![failed_model].fallback = @ + 1]]
             ELSE [found |-> FALSE, model |-> "None", adapter |-> "None",
                   health |-> h1,
                   stats |-> [stats EXCEPT ![failed_model].failed = @ + 1]]

\* ModelRouter.__init__
RouterInitWith(cfg, configured) ==
    /\ routerCfg = cfg
    /\ adapters = configured
    /\ model_health = [m \in AllModels |-> NewHealth]
    /\ routing_stats = [m \in AllModels |->
                          [routed |-> 0, fallback |-> 0, failed |-> 0]]

\* =====================================================================
\* handlers/chat.py
\* =====================================================================
ChatTasks == {"h1", "h2"}

\* the requests: messages (the text of the conversation, "" for an empty
\* list), the requested model and the stream flag
ChatParams ==
    { [messages |-> "", model |-> "None", stream |-> FALSE],
      [messages |-> "hello", model |-> "None", stream |-> FALSE],
      [messages |-> "write python code", model |-> "None", stream |-> FALSE],
      [messages |-> "hello", model |-> "openai/gpt-4", stream |-> FALSE],
      [messages |-> "hello", model |-> "None", stream |-> TRUE] }

\* str() of the exception that an adapter's chat() raises for a model
ErrorOf(model) == "failed: " \o model

\* ChatHandler._generate_cache_key: the SHA-256 of the sorted JSON of
\* messages, model and the other parameters, one cache key per request
ChatCacheKey(p) ==
    IF p.model = "openai/gpt-4" THEN "C"
    ELSE IF p.messages = "hello" THEN "A" ELSE "B"

\* a response dict; "None" and FALSE stand for an absent key
Response(status, data, error, adapter_name) ==
    [status |-> status, data |-> data, error |-> error,
     adapter_name |-> adapter_name, cached |-> FALSE, fallback_used |-> FALSE,
     original_model |-> "None", params_model |-> "None"]

NoResponse == Response("None", "None", "None", "None")

ErrorResponse(text) == Response("error", "None", text, "None")

\* A slip in the fallback branch: the response of the primary branch
FallbackResponsePlain(result, fallback_adapter_name, model) ==
    Response("success", result, "None", fallback_adapter_name)

\* the response of the fallback branch
FallbackResponse(result, fallback_adapter_name, model) ==
    [Response("success", result, "None", fallback_adapter_name)
       EXCEPT !.fallback_used = TRUE, !.original_model = model]

\* A slip in the cache branch: the response of a call that ran the model
CachedResponsePlain(cached_result) ==
    Response("success", cached_result, "None", "None")

\* the response of the cache branch
CachedResponse(cached_result) ==
    [Response("success", cached_result, "None", "None") EXCEPT !.cached = TRUE]

\* A slip after the fallback's failure: the handler raises the last error
raised_last(adapter_error, fallback_error) == fallback_error

\* `raise adapter_error` after the fallback's failure was logged
raised(adapter_error, fallback_error) == adapter_error

\* what the IPC client sends back for a request: the message type and
\* its data; "None" stands for an absent key
Reply(msg_type, status, data, error, type) ==
    [msg_type |-> msg_type, status |-> status, data |-> data,
     error |-> error, type |-> type]

\* the request is not answered yet
NoReply == Reply("None", "None", "None", "None", "None")

\* a task that is not in handle_chat
IdleHandler ==
    [pc |-> "idle", params |-> [messages |-> "", model |-> "None", stream |-> FALSE],
     cache_key |-> "None", model |-> "None", adapter_name |-> "None",
     fallback_model |-> "None", fallback_adapter_name |-> "None",
     fallback_found |-> FALSE, adapter_error |-> "None", calls |-> <<>>,
     response |-> NoResponse, reply |-> NoReply]

\* ChatHandler._select_adapter and _get_adapter_name, used without a router
select_adapter(model) ==
    LET name == IF model \in SlashNames THEN "openrouter"
                ELSE IF model \in ColonNames THEN "ollama"
                ELSE IF model \in GptNames THEN "openai"
                ELSE IF model \in ClaudeNames THEN "anthropic"
                ELSE IF "ollama" \in adapters THEN "ollama"
                ELSE "openai"
    IN  IF name \in adapters THEN name ELSE "None"

\* handle_chat returns
ChatReturn(t, h, response) ==
    handlers' = [handlers EXCEPT ![t] = [h EXCEPT !.pc = "done",
                                                  !.response = response]]

\* handle_chat from its entry to the await of the adapter's chat(), or to
\* its return when it ends before that
ChatBegin(t, p) ==
    /\ handlers[t].pc \in {"idle", "done"}
    /\ chatReqs < MaxChatReqs
    /\ chatReqs' = chatReqs + 1
    /\ LET use_cache == chatCfg.has_cache /\ ~p.stream /\ p.messages # ""
           key == IF use_cache THEN ChatCacheKey(p) ELSE "None"
           h0  == [IdleHandler EXCEPT !.params = p, !.cache_key = key]
       IN  /\ IF use_cache THEN cache_get(key) ELSE UNCHANGED cacheVars
           /\ IF p.messages = ""
              THEN /\ ChatReturn(t, h0, ErrorResponse("No messages provided"))
                   /\ UNCHANGED routing_stats
              ELSE IF use_cache /\ cacheRet' # "None"
              THEN /\ ChatReturn(t, h0, CachedResponse(cacheRet'))
                   /\ UNCHANGED routing_stats
              ELSE LET sel == IF chatCfg.has_router
                              THEN router_select_model(p.messages, p.model,
                                                       model_health, routing_stats)
                              ELSE LET m == IF p.model # "None" THEN p.model
                                                                ELSE "gpt-3.5-turbo"
                                   IN  [ok |-> TRUE, model |-> m,
                                        adapter |-> select_adapter(m),
                                        stats |-> routing_stats]
                       configured == sel.adapter \in adapters
                       h1 == [h0 EXCEPT !.model = sel.model,
                                        !.adapter_name = sel.adapter]
                   IN  /\ routing_stats' = sel.stats
                       /\ IF ~sel.ok
                          THEN ChatReturn(t, h0, ErrorResponse("No adapters available"))
                          ELSE IF ~configured
                          THEN ChatReturn(t, h1, ErrorResponse(
                                   "No adapter available for model: " \o sel.model))
                          ELSE IF p.stream
                          THEN ChatReturn(t, h1,
                                   [Response("streaming", "None", "None", sel.adapter)
                                      EXCEPT !.params_model = sel.model])
                          ELSE handlers' = [handlers EXCEPT ![t] =
                                              [h1 EXCEPT !.pc = "primary"]]
    /\ UNCHANGED <<now, exceptChat, chatCfg, routerCfg, adapters, model_health>>

\* history: one more adapter chat() call and how it ended
Called(h, adapter, model, ok, value) ==
    [h EXCEPT !.calls = Append(h.calls, [adapter |-> adapter, model |-> model,
                                         ok |-> ok, value |-> value])]

\* adapter.chat() returns result: the rest of the try block
ChatPrimaryReturns(t, result) ==
    /\ handlers[t].pc = "primary"
    /\ LET h == handlers[t]
       IN  /\ model_health' =
                IF chatCfg.has_router
                THEN [model_health EXCEPT ![h.model] = health_record_success(@)]
                ELSE model_health
           /\ IF chatCfg.has_cache /\ h.cache_key # "None"
              THEN cache_set(h.cache_key, result, NoTtl, TRUE)
              ELSE UNCHANGED cacheVars
           /\ ChatReturn(t, Called(h, h.adapter_name, h.model, TRUE, result),
                         Response("success", result, "None", h.adapter_name))
    /\ UNCHANGED <<now, exceptChat, chatCfg, routerCfg, adapters, routing_stats,
                   chatReqs>>

\* adapter.chat() raises adapter_error: the except branch up to the await
\* of the fallback adapter's chat(), or to the return of the error response
ChatPrimaryRaises(t) ==
    /\ handlers[t].pc = "primary"
    /\ LET adapter_error == ErrorOf(handlers[t].model)
           h  == Called(handlers[t], handlers[t].adapter_name, handlers[t].model,
                        FALSE, adapter_error)
           h1 == [model_health EXCEPT ![h.model] = health_record_failure(@, now)]
           fb == router_get_fallback_model(h.model, h1, routing_stats)
       IN  IF ~chatCfg.has_router
           THEN /\ ChatReturn(t, h, ErrorResponse(adapter_error))
                /\ UNCHANGED <<model_health, routing_stats>>
           ELSE /\ model_health' = fb.health
                /\ routing_stats' = fb.stats
                /\ IF fb.found /\ fb.adapter \in adapters
                   THEN handlers' = [handlers EXCEPT ![t] =
                          [h EXCEPT !.pc = "fallback",
                                    !.fallback_found = TRUE,
                                    !.fallback_model = fb.model,
                                    !.fallback_adapter_name = fb.adapter,
                                    !.adapter_error = adapter_error]]
                   ELSE ChatReturn(t, [h EXCEPT !.fallback_found = fb.found,
                                                !.fallback_model = fb.model,
                                                !.fallback_adapter_name = fb.adapter,
                                                !.adapter_error = adapter_error],
                                   ErrorResponse(adapter_error))
    /\ UNCHANGED <<now, exceptChat, cacheVars, chatCfg, routerCfg, adapters,
                   chatReqs>>

\* fallback_adapter.chat() returns result
ChatFallbackReturns(t, result) ==
    /\ handlers[t].pc = "fallback"
    /\ LET h == handlers[t]
       IN  ChatReturn(t, Called(h, h.fallback_adapter_name, h.fallback_model,
                                TRUE, result),
                      FallbackResponse(result, h.fallback_adapter_name, h.model))
    /\ UNCHANGED <<now, exceptChat, cacheVars, routerVars, chatCfg, chatReqs>>

\* fallback_adapter.chat() raises: adapter_error is raised again and the
\* outer except returns it
ChatFallbackRaises(t) ==
    /\ handlers[t].pc = "fallback"
    /\ LET h == handlers[t]
           fallback_error == ErrorOf(h.fallback_model)
       IN  ChatReturn(t, Called(h, h.fallback_adapter_name, h.fallback_model,
                                FALSE, fallback_error),
                      ErrorResponse(raised(h.adapter_error, fallback_error)))
    /\ UNCHANGED <<now, exceptChat, cacheVars, routerVars, chatCfg, chatReqs>>

\* time.time() read HealthRecoveryTime seconds later, while requests are
\* served
ChatTick ==
    /\ now < MaxChatTime
    /\ now' = now + HealthRecoveryTime
    /\ UNCHANGED <<exceptChat, cacheVars, routerVars, chatVars>>

\* ChatHandler.__init__ and set_components
ChatInitWith(has_router, has_cache) ==
    /\ chatCfg = [has_router |-> has_router, has_cache |-> has_cache]
    /\ handlers = [t \in ChatTasks |-> IdleHandler]
    /\ chatReqs = 0

ChatInit ==
    /\ \E r \in BOOLEAN, c \in BOOLEAN : ChatInitWith(r, c)
    /\ \E fb \in BOOLEAN, configured \in AdapterSets :
          RouterInitWith([enabled |-> TRUE, enable_fallback |-> fb,
                          track_model_health |-> TRUE], configured)

\* =====================================================================
\* ipc/protocol.py: MessageType, Message; ipc/client.py: NeoIPCClient
\* =====================================================================
REQUEST == 1
RESPONSE == 2
REGISTER == 3
HEARTBEAT == 4
ERROR == 5

MessageTypes == {REQUEST, RESPONSE, REGISTER, HEARTBEAT, ERROR}

\* config 'service.name'
service_name == "ai-service"

Methods == {"chat", "health"}

\* the methods given to add_handler before run()
HandlerSets == {{"chat"}}

\* Message.data: a dict (a function from its keys), a str or bytes
Dict(d) == [kind |-> "dict", v |-> d]

Str(s) == [kind |-> "str", v |-> s]

Bytes(s) == [kind |-> "bytes", v |-> s]

\* {}
EmptyDict == <<>>

\* a value json.dumps has no encoding for
Object == "<object>"

Message(msg_type, id, service, method, data, metadata) ==
    [msg_type |-> msg_type, id |-> id, service |-> service,
     method |-> method, data |-> data, metadata |-> metadata]

\* the frames the framework sends: requests, with a dict or with raw bytes
\* as data, and one frame of each other type
InFrames ==
    {Message(REQUEST, "r1", service_name, "chat", Dict([model |-> "m1"]),
             EmptyDict),
     Message(REQUEST, "r2", service_name, "chat", Bytes("raw"), EmptyDict),
     Message(REQUEST, "r2", service_name, "health", Dict(EmptyDict),
             EmptyDict)}
    \cup {Message(t, "", service_name, "", Bytes(""), EmptyDict) :
            t \in MessageTypes \ {REQUEST}}

\* what a handler returns
HandlerResults == {Dict([status |-> "success"]), Dict([adapter |-> Object])}

\* what a handler raises: str(e) and type(e).__name__
HandlerErrors == {[text |-> "'messages'", type |-> "KeyError"]}

\* json.dumps(msg.data) of a dict that holds an object
JsonTypeError ==
    [text |-> "Object of type object is not JSON serializable",
     type |-> "TypeError"]

\* writer.write / drain on a connection that is gone
ConnectionResetError ==
    [text |-> "Connection lost", type |-> "ConnectionResetError"]

\* whether encode_message(msg) raises
encode_raises(msg) ==
    /\ msg.data.kind = "dict"
    /\ \E k \in DOMAIN msg.data.v : msg.data.v[k] = Object

\* _send_message: the exception it raises, if any, and the frame it wrote
send_message(msg) ==
    IF encode_raises(msg)
    THEN [raised |-> <<JsonTypeError>>, wrote |-> <<>>]
    ELSE IF ~writable
    THEN [raised |-> <<ConnectionResetError>>, wrote |-> <<>>]
    ELSE [raised |-> <<>>, wrote |-> <<msg>>]

\* the REGISTER frame of register_service
register_msg ==
    Message(REGISTER, "", service_name, "",
            Dict([name |-> service_name]), EmptyDict)

\* _handle_request: the ERROR frame for a method without handler
not_found_msg(msg) ==
    Message(ERROR, msg.id, service_name, msg.method,
            Dict([error |-> "Method '" \o msg.method \o "' not found"]),
            [error |-> "true"])

\* _handle_request: the RESPONSE frame
response_msg(msg, result) ==
    Message(RESPONSE, msg.id, service_name, msg.method, result, EmptyDict)

error_msg_untyped(msg, e) ==
    Message(ERROR, msg.id, service_name, msg.method,
            Dict([error |-> e.text]), [error |-> "true"])

\* _handle_request: the ERROR frame for an exception
error_msg(msg, e) ==
    Message(ERROR, msg.id, service_name, msg.method,
            Dict([error |-> e.text, type |-> e.type]), [error |-> "true"])

\* no task: the frame was not a REQUEST
NoTask ==
    [pc |-> "none", request_data |-> <<>>, returned |-> <<>>,
     raised |-> <<>>]

\* asyncio.create_task(self._handle_request(msg))
NewTask == [NoTask EXCEPT !.pc = "created"]

\* the task of received[i] ends after _send_message(msg): with the frame
\* written, or with the exception _send_message raised
TaskSends(i, task, msg) ==
    LET sent == send_message(msg) IN
    /\ outbox' = outbox \o sent.wrote
    /\ sentFor' = sentFor \o [k \in DOMAIN sent.wrote |-> i]
    /\ tasks' = [tasks EXCEPT ![i] =
                    [task EXCEPT !.pc = IF sent.raised = <<>>
                                        THEN "done" ELSE "failed"]]

loop_reads_after_tasks ==
    /\ running /\ connected
    /\ \A i \in DOMAIN tasks : tasks[i].pc \notin {"created", "handler"}

\* run(): `while self.connected` and `await self._read_message()`; the loop
\* awaits nothing else
loop_reads == running /\ connected

\* run(): _read_message returns a frame; a REQUEST gets its own task
IpcRead(frame) ==
    /\ loop_reads
    /\ Len(received) < MaxFrames
    /\ received' = Append(received, frame)
    /\ tasks' = Append(tasks, IF frame.msg_type = REQUEST
                              THEN NewTask ELSE NoTask)
    /\ UNCHANGED <<now, exceptIpc, heartbeat, ipcHandlers, connected, writable, running,
                   outbox, sentFor>>

\* run(): _read_message returns None or raises, or connected is False:
\* the loop ends
IpcReadEnds ==
    /\ running
    /\ running' = FALSE
    /\ UNCHANGED <<now, exceptIpc, heartbeat, ipcHandlers, connected, writable, received,
                   tasks, outbox, sentFor>>

\* _handle_request, up to the call of the handler
IpcHandleRequest(i) ==
    /\ i \in DOMAIN tasks
    /\ tasks[i].pc = "created"
    /\ LET msg == received[i] IN
       IF msg.method \notin ipcHandlers
       THEN TaskSends(i, tasks[i], not_found_msg(msg))
       ELSE /\ tasks' = [tasks EXCEPT ![i] =
                    [@ EXCEPT !.pc = "handler",
                              !.request_data =
                                  <<IF msg.data.kind = "dict"
                                    THEN msg.data ELSE Dict(EmptyDict)>>]]
            /\ UNCHANGED <<outbox, sentFor>>
    /\ UNCHANGED <<now, exceptIpc, heartbeat, ipcHandlers, connected, writable, running,
                   received>>

\* _handle_request: the handler returns result
IpcHandlerReturns(i, result) ==
    /\ i \in DOMAIN tasks
    /\ tasks[i].pc = "handler"
    /\ LET msg == received[i]
           task == [tasks[i] EXCEPT !.returned = <<result>>]
           sent == send_message(response_msg(msg, result))
       IN IF sent.raised = <<>>
          THEN TaskSends(i, task, response_msg(msg, result))
          ELSE TaskSends(i, task, error_msg(msg, sent.raised[1]))
    /\ UNCHANGED <<now, exceptIpc, heartbeat, ipcHandlers, connected, writable, running,
                   received>>

\* _handle_request: the handler raises e
IpcHandlerRaises(i, e) ==
    /\ i \in DOMAIN tasks
    /\ tasks[i].pc = "handler"
    /\ TaskSends(i, [tasks[i] EXCEPT !.raised = <<e>>],
                 error_msg(received[i], e))
    /\ UNCHANGED <<now, exceptIpc, heartbeat, ipcHandlers, connected, writable, running,
                   received>>

\* disconnect(): the heartbeat task is cancelled and the writer is closed
IpcDisconnect ==
    /\ connected
    /\ connected' = FALSE
    /\ writable' = FALSE
    /\ heartbeat' = "stopped"
    /\ UNCHANGED <<now, exceptIpc, ipcHandlers, running, received, tasks,
                   outbox, sentFor>>

\* the framework drops the connection: write / drain raise from now on
IpcConnectionLost ==
    /\ writable
    /\ writable' = FALSE
    /\ UNCHANGED <<now, exceptIpc, heartbeat, ipcHandlers, connected, running, received,
                   tasks, outbox, sentFor>>

\* the HEARTBEAT frame of _heartbeat_loop
heartbeat_msg == Message(HEARTBEAT, "", service_name, "", Bytes(""), EmptyDict)

\* the heartbeats written
Heartbeats == {k \in DOMAIN outbox : outbox[k].msg_type = HEARTBEAT}

\* _heartbeat_loop: asyncio.sleep(30) is over and the heartbeat is sent;
\* the loop ends when _send_message raises (the first heartbeat is followed,
\* the later ones are as the first)
IpcHeartbeat ==
    /\ heartbeat = "sleeping"
    /\ Heartbeats = {}
    /\ LET sent == send_message(heartbeat_msg) IN
       /\ outbox' = outbox \o sent.wrote
       /\ sentFor' = sentFor \o [k \in DOMAIN sent.wrote |-> 0]
       /\ heartbeat' = IF sent.raised = <<>> /\ connected
                       THEN "sleeping" ELSE "stopped"
    /\ UNCHANGED <<now, exceptIpc, ipcHandlers, connected, writable, running,
                   received, tasks>>

\* connect(), add_handler(), register_service(), and run() entered
IpcInitWith(hs) ==
    /\ ipcHandlers = hs
    /\ connected = TRUE
    /\ writable = TRUE
    /\ running = TRUE
    /\ received = <<>>
    /\ tasks = <<>>
    /\ outbox = <<register_msg>>
    /\ sentFor = <<0>>
    /\ heartbeat = "sleeping"

IpcInit == \E hs \in HandlerSets : IpcInitWith(hs)

\* =====================================================================
\* ipc/protocol.py: encode_message, decode_message
\* =====================================================================
\* A str is the sequence of its code points, bytes the sequence of its
\* byte values.  A JSON value is tagged with its Python type: a dict is the
\* sequence of its <<key, value>> items in insertion order.
JStr(s) == [t |-> "str", v |-> s]

JInt(n) == [t |-> "int", v |-> n]

\* a float, in tenths
JFloat(tenths) == [t |-> "float", v |-> tenths]

JBool(b) == [t |-> "bool", v |-> b]

JNull == [t |-> "null", v |-> <<>>]

JList(xs) == [t |-> "list", v |-> xs]

JDict(items) == [t |-> "dict", v |-> items]

JBytes(b) == [t |-> "bytes", v |-> b]

\* data[i : i + n]
Slice(data, i, n) == SubSeq(data, i, Min(i + n - 1, Len(data)))

\* ---- str.encode('utf-8')
utf8_char(c) ==
    IF c < 128 THEN <<c>>
    ELSE IF c < 2048 THEN <<192 + (c \div 64), 128 + (c % 64)>>
    ELSE IF c < 65536
    THEN <<224 + (c \div 4096), 128 + ((c \div 64) % 64), 128 + (c % 64)>>
    ELSE <<240 + (c \div 262144), 128 + ((c \div 4096) % 64),
           128 + ((c \div 64) % 64), 128 + (c % 64)>>

\* the halves of a sequence: a function applied to every element of a long
\* sequence is applied to its halves
FirstHalf(s) == SubSeq(s, 1, Len(s) \div 2)

SecondHalf(s) == SubSeq(s, Len(s) \div 2 + 1, Len(s))

RECURSIVE utf8_encode(_)
utf8_encode(s) ==
    IF s = <<>> THEN <<>>
    ELSE IF Len(s) = 1 THEN utf8_char(s[1])
    ELSE utf8_encode(FirstHalf(s)) \o utf8_encode(SecondHalf(s))

\* ---- bytes.decode('utf-8'): [ok, chars], ok false for UnicodeDecodeError
utf8_width(c) ==
    IF c < 128 THEN 1
    ELSE IF c >= 194 /\ c < 224 THEN 2
    ELSE IF c >= 224 /\ c < 240 THEN 3
    ELSE IF c >= 240 /\ c < 245 THEN 4
    ELSE 0

utf8_point(b, i, n) ==
    IF n = 1 THEN b[i]
    ELSE IF n = 2 THEN (b[i] - 192) * 64 + (b[i + 1] - 128)
    ELSE IF n = 3
    THEN (b[i] - 224) * 4096 + (b[i + 1] - 128) * 64 + (b[i + 2] - 128)
    ELSE (b[i] - 240) * 262144 + (b[i + 1] - 128) * 4096
         + (b[i + 2] - 128) * 64 + (b[i + 3] - 128)

\* a byte that is not a continuation byte
IsLead(c) == c < 128 \/ c >= 192

\* every lead byte is followed by the continuation bytes its width asks
\* for, and every continuation byte follows such a lead byte
utf8_valid(b) ==
    LET leads == {i \in DOMAIN b : IsLead(b[i])} IN
    /\ \A i \in leads :
          /\ utf8_width(b[i]) > 0
          /\ i + utf8_width(b[i]) - 1 <= Len(b)
          /\ \A k \in 1..(utf8_width(b[i]) - 1) : ~IsLead(b[i + k])
    /\ \A j \in DOMAIN b \ leads :
          \E i \in leads : i < j /\ j < i + utf8_width(b[i])

utf8_decode(b) ==
    LET leads == {i \in DOMAIN b : IsLead(b[i])}
        nth(k) == CHOOSE i \in leads :
                      Cardinality({j \in leads : j < i}) = k - 1
    IN IF utf8_valid(b)
       THEN [ok |-> TRUE,
             chars |-> [k \in 1..Cardinality(leads) |->
                          utf8_point(b, nth(k), utf8_width(b[nth(k)]))]]
       ELSE [ok |-> FALSE, chars |-> <<>>]

\* ---- json.dumps(obj), ensure_ascii and the default separators
Hex(d) == IF d < 10 THEN 48 + d ELSE 87 + d

\* '\\u{0:04x}'
u_escape(c) ==
    <<92, 117, Hex(c \div 4096), Hex((c \div 256) % 16), Hex((c \div 16) % 16),
      Hex(c % 16)>>

json_escape_char(c) ==
    CASE c = 34 -> <<92, 34>>
      [] c = 92 -> <<92, 92>>
      [] c = 10 -> <<92, 110>>
      [] c = 13 -> <<92, 114>>
      [] c = 9 -> <<92, 116>>
      [] c = 8 -> <<92, 98>>
      [] c = 12 -> <<92, 102>>
      [] OTHER ->
            IF c >= 32 /\ c <= 126 THEN <<c>>
            ELSE IF c < 65536 THEN u_escape(c)
            ELSE u_escape(55296 + ((c - 65536) \div 1024))
                 \o u_escape(56320 + ((c - 65536) % 1024))

RECURSIVE json_escape(_)
json_escape(s) ==
    IF s = <<>> THEN <<>>
    ELSE IF Len(s) = 1 THEN json_escape_char(s[1])
    ELSE json_escape(FirstHalf(s)) \o json_escape(SecondHalf(s))

json_string(s) == <<34>> \o json_escape(s) \o <<34>>

RECURSIVE digits(_)
digits(n) ==
    IF n < 10 THEN <<48 + n>> ELSE digits(n \div 10) \o <<48 + (n % 10)>>

json_int(n) == IF n < 0 THEN <<45>> \o digits(-n) ELSE digits(n)

\* float.__repr__
json_float(tenths) ==
    IF tenths < 0 THEN <<45>> \o digits((-tenths) \div 10) \o <<46>>
                       \o digits((-tenths) % 10)
    ELSE digits(tenths \div 10) \o <<46>> \o digits(tenths % 10)

\* "true", "false", "null"
TrueText == <<116, 114, 117, 101>>

FalseText == <<102, 97, 108, 115, 101>>

NullText == <<110, 117, 108, 108>>

RECURSIVE json_dumps(_), json_items(_), json_members(_)
json_dumps(x) ==
    CASE x.t = "str" -> json_string(x.v)
      [] x.t = "int" -> json_int(x.v)
      [] x.t = "float" -> json_float(x.v)
      [] x.t = "bool" -> IF x.v THEN TrueText ELSE FalseText
      [] x.t = "null" -> NullText
      [] x.t = "list" -> <<91>> \o json_items(x.v) \o <<93>>
      [] x.t = "dict" -> <<123>> \o json_members(x.v) \o <<125>>

json_items(xs) ==
    IF xs = <<>> THEN <<>>
    ELSE json_dumps(Head(xs))
         \o (IF Len(xs) > 1 THEN <<44, 32>> \o json_items(Tail(xs)) ELSE <<>>)

json_members(items) ==
    IF items = <<>> THEN <<>>
    ELSE json_string(Head(items)[1]) \o <<58, 32>> \o json_dumps(Head(items)[2])
         \o (IF Len(items) > 1
             THEN <<44, 32>> \o json_members(Tail(items)) ELSE <<>>)

\* ---- json.loads(s): [ok, val], ok false for JSONDecodeError
Parsed(val, pos) == [ok |-> TRUE, val |-> val, pos |-> pos]

ParseError == [ok |-> FALSE, val |-> JNull, pos |-> 0]

RECURSIVE skip_ws(_, _)
skip_ws(s, i) ==
    IF i <= Len(s) /\ s[i] \in {32, 9, 10, 13} THEN skip_ws(s, i + 1) ELSE i

HexVal(c) ==
    IF c >= 48 /\ c <= 57 THEN c - 48
    ELSE IF c >= 97 /\ c <= 102 THEN c - 87
    ELSE IF c >= 65 /\ c <= 70 THEN c - 55
    ELSE -1

\* the value of the four hex digits at s[i], or -1
hex4(s, i) ==
    IF i + 3 > Len(s) \/ \E k \in 0..3 : HexVal(s[i + k]) < 0 THEN -1
    ELSE HexVal(s[i]) * 4096 + HexVal(s[i + 1]) * 256 + HexVal(s[i + 2]) * 16
         + HexVal(s[i + 3])

unescape(e) ==
    CASE e = 34 -> 34
      [] e = 92 -> 92
      [] e = 47 -> 47
      [] e = 98 -> 8
      [] e = 102 -> 12
      [] e = 110 -> 10
      [] e = 114 -> 13
      [] e = 116 -> 9
      [] OTHER -> -1

\* the string whose opening quote is before s[i]; acc is what was read
RECURSIVE parse_string(_, _, _)
parse_string(s, i, acc) ==
    IF i > Len(s) THEN ParseError
    ELSE IF s[i] = 34 THEN Parsed(JStr(acc), i + 1)
    ELSE IF s[i] < 32 THEN ParseError
    ELSE IF s[i] # 92 THEN parse_string(s, i + 1, Append(acc, s[i]))
    ELSE IF i + 1 > Len(s) THEN ParseError
    ELSE IF s[i + 1] # 117
    THEN IF unescape(s[i + 1]) < 0 THEN ParseError
         ELSE parse_string(s, i + 2, Append(acc, unescape(s[i + 1])))
    ELSE LET u == hex4(s, i + 2)
             low == IF i + 7 <= Len(s) /\ s[i + 6] = 92 /\ s[i + 7] = 117
                    THEN hex4(s, i + 8) ELSE -1
         IN IF u < 0 THEN ParseError
            ELSE IF u >= 55296 /\ u < 56320 /\ low >= 56320 /\ low < 57344
            THEN parse_string(s, i + 12,
                     Append(acc, 65536 + (u - 55296) * 1024 + (low - 56320)))
            ELSE parse_string(s, i + 6, Append(acc, u))

IsDigit(c) == c >= 48 /\ c <= 57

RECURSIVE parse_digits(_, _, _)
parse_digits(s, i, acc) ==
    IF i <= Len(s) /\ IsDigit(s[i])
    THEN parse_digits(s, i + 1, acc * 10 + (s[i] - 48))
    ELSE [val |-> acc, pos |-> i]

\* an int, or a float with one digit after the point
parse_number(s, i) ==
    LET neg == s[i] = 45
        first == IF neg THEN i + 1 ELSE i
        d == parse_digits(s, first, 0)
        f == parse_digits(s, d.pos + 1, 0)
        signed(n) == IF neg THEN 0 - n ELSE n
    IN IF d.pos = first THEN ParseError
       ELSE IF d.pos <= Len(s) /\ s[d.pos] \in {101, 69} THEN ParseError
       ELSE IF d.pos <= Len(s) /\ s[d.pos] = 46
       THEN IF f.pos # d.pos + 2 \/ (f.pos <= Len(s) /\ s[f.pos] \in {101, 69})
            THEN ParseError
            ELSE Parsed(JFloat(signed(d.val * 10 + f.val)), f.pos)
       ELSE Parsed(JInt(signed(d.val)), d.pos)

parse_literal(s, i) ==
    IF Slice(s, i, 4) = TrueText THEN Parsed(JBool(TRUE), i + 4)
    ELSE IF Slice(s, i, 5) = FalseText THEN Parsed(JBool(FALSE), i + 5)
    ELSE IF Slice(s, i, 4) = NullText THEN Parsed(JNull, i + 4)
    ELSE ParseError

RECURSIVE parse_value(_, _), parse_members(_, _, _), parse_items(_, _, _)
parse_value(s, i) ==
    IF i > Len(s) THEN ParseError
    ELSE IF s[i] = 34 THEN parse_string(s, i + 1, <<>>)
    ELSE IF s[i] = 123
    THEN LET j == skip_ws(s, i + 1) IN
         IF j <= Len(s) /\ s[j] = 125 THEN Parsed(JDict(<<>>), j + 1)
         ELSE parse_members(s, j, <<>>)
    ELSE IF s[i] = 91
    THEN LET j == skip_ws(s, i + 1) IN
         IF j <= Len(s) /\ s[j] = 93 THEN Parsed(JList(<<>>), j + 1)
         ELSE parse_items(s, j, <<>>)
    ELSE IF s[i] = 45 \/ IsDigit(s[i]) THEN parse_number(s, i)
    ELSE parse_literal(s, i)

\* the members of an object from the key at s[i] on
parse_members(s, i, acc) ==
    IF i > Len(s) \/ s[i] # 34 THEN ParseError
    ELSE LET k == parse_string(s, i + 1, <<>>)
             colon == skip_ws(s, k.pos)
             x == parse_value(s, skip_ws(s, colon + 1))
             end == skip_ws(s, x.pos)
             items == Append(acc, <<k.val.v, x.val>>)
         IN IF ~k.ok \/ colon > Len(s) \/ s[colon] # 58 THEN ParseError
            ELSE IF ~x.ok \/ end > Len(s) THEN ParseError
            ELSE IF s[end] = 125 THEN Parsed(JDict(items), end + 1)
            ELSE IF s[end] = 44
            THEN parse_members(s, skip_ws(s, end + 1), items)
            ELSE ParseError

\* the items of an array from the value at s[i] on
parse_items(s, i, acc) ==
    LET x == parse_value(s, i)
        end == skip_ws(s, x.pos)
        items == Append(acc, x.val)
    IN IF ~x.ok \/ end > Len(s) THEN ParseError
       ELSE IF s[end] = 93 THEN Parsed(JList(items), end + 1)
       ELSE IF s[end] = 44 THEN parse_items(s, skip_ws(s, end + 1), items)
       ELSE ParseError

json_loads(s) ==
    LET x == parse_value(s, skip_ws(s, 1)) IN
    IF x.ok /\ skip_ws(s, x.pos) = Len(s) + 1
    THEN [ok |-> TRUE, val |-> x.val]
    ELSE [ok |-> FALSE, val |-> JNull]

\* ---- struct.pack('<I', n) / struct.unpack('<I', data[i : i + 4])[0]
pack_u32_be(n) ==
    <<(n \div 16777216) % 256, (n \div 65536) % 256, (n \div 256) % 256,
      n % 256>>

pack_u32(n) ==
    <<n % 256, (n \div 256) % 256, (n \div 65536) % 256,
      (n \div 16777216) % 256>>

unpack_u32(data, i) ==
    data[i] + 256 * data[i + 1] + 65536 * data[i + 2]
    + 16777216 * data[i + 3]

\* struct.pack('<I', len(b)) followed by b
prefixed(b) == pack_u32(Len(b)) \o b

\* encode_message: "Convert data to bytes"
data_bytes(data) ==
    CASE data.t = "dict" -> utf8_encode(json_dumps(data))
      [] data.t = "str" -> utf8_encode(data.v)
      [] data.t = "bytes" -> data.v
      [] OTHER -> utf8_encode(json_dumps(data))

\* encode_message: the content, and the frame with its length header
encode_content(msg) ==
    <<msg.msg_type>>
    \o prefixed(utf8_encode(msg.id))
    \o prefixed(utf8_encode(msg.service))
    \o prefixed(utf8_encode(msg.method))
    \o prefixed(utf8_encode(json_dumps(msg.metadata)))
    \o prefixed(data_bytes(msg.data))

encode_message(msg) == prefixed(encode_content(msg))

\* decode_message: the length-prefixed field at data[off], and the offset
\* after it; short is true where struct.unpack raises
read_field(data, off) ==
    IF off + 3 > Len(data)
    THEN [short |-> TRUE, bytes |-> <<>>, next |-> off]
    ELSE [short |-> FALSE,
          bytes |-> Slice(data, off + 4, unpack_u32(data, off)),
          next |-> off + 4 + unpack_u32(data, off)]

\* what decode_message returns, or that it raised
Decoded(msg) == [raised |-> FALSE, msg |-> msg]

DecodeRaised == [raised |-> TRUE, msg |-> <<>>]

decode_message(data) ==
    LET f_id == read_field(data, 2)
        f_service == read_field(data, f_id.next)
        f_method == read_field(data, f_service.next)
        f_metadata == read_field(data, f_method.next)
        f_data == read_field(data, f_metadata.next)
        msg_id == utf8_decode(f_id.bytes)
        service == utf8_decode(f_service.bytes)
        method == utf8_decode(f_method.bytes)
        metadata_json == utf8_decode(f_metadata.bytes)
        metadata == IF metadata_json.chars = <<>>
                    THEN [ok |-> TRUE, val |-> JDict(<<>>)]
                    ELSE json_loads(metadata_json.chars)
        data_text == utf8_decode(f_data.bytes)
        data_json == json_loads(data_text.chars)
        data_obj == IF data_text.ok /\ data_json.ok
                    THEN data_json.val ELSE JBytes(f_data.bytes)
    IN IF data = <<>> \/ data[1] \notin MessageTypes THEN DecodeRaised
       ELSE IF f_id.short \/ ~msg_id.ok THEN DecodeRaised
       ELSE IF f_service.short \/ ~service.ok THEN DecodeRaised
       ELSE IF f_method.short \/ ~method.ok THEN DecodeRaised
       ELSE IF f_metadata.short \/ ~metadata_json.ok \/ ~metadata.ok
       THEN DecodeRaised
       ELSE IF f_data.short THEN DecodeRaised
       ELSE Decoded(Message(data[1], msg_id.chars, service.chars,
                            method.chars, data_obj, metadata.val))

\* ---- the messages encoded: ids "", "r1" and one of a two-, a three- and
\* a four-byte character; metadata {}, {"k": "v"} and one whose strings
\* need escapes; data dicts, a str that reads as JSON, and bytes
CodecIds == {<<>>, <<114, 49>>, <<233, 8364, 128512>>}

CodecService == <<97, 105>>

CodecMethod == <<99, 104, 97, 116>>

CodecMetadata ==
    {JDict(<<>>),
     JDict(<< <<<<107>>, JStr(<<118>>)>> >>),
     JDict(<< <<<<116>>, JStr(<<97, 34, 98, 92>>)>>,
              <<<<233>>, JStr(<<8364, 128512, 10, 127>>)>> >>)}

CodecData ==
    {JDict(<<>>),
     JDict(<< <<<<109>>, JStr(<<109, 49>>)>>, <<<<116>>, JFloat(7)>> >>),
     JDict(<< <<<<110>>, JInt(0 - 12)>>,
              <<<<111, 107>>, JBool(TRUE)>>,
              <<<<120>>, JNull>>,
              <<<<108>>, JList(<<JInt(305), JStr(<<233>>), JBool(FALSE)>>)>>,
              <<<<100>>, JDict(<< <<<<34>>, JStr(<<128512, 9>>)>> >>)>> >>),
     JStr(<<49, 50, 51>>),
     JBytes(<<>>),
     JBytes(<<255, 1>>)}

CodecMessages ==
    {Message(t, id, CodecService, CodecMethod, data, metadata) :
        t \in MessageTypes, id \in CodecIds, data \in CodecData,
        metadata \in CodecMetadata}

\* _send_message: data = encode_message(msg); self.writer.write(data)
CodecSend ==
    /\ codecPc = "encode"
    /\ wire' = wire \o encode_message(codecMsg)
    /\ codecPc' = "read"
    /\ UNCHANGED <<now, exceptCodec, codecMsg, content, decoded>>

\* _read_message: readexactly(4), readexactly(msg_len), decode_message
CodecReadMessage ==
    /\ codecPc = "read"
    /\ Len(wire) >= 4
    /\ LET msg_len == unpack_u32(wire, 1) IN
       /\ Len(wire) >= 4 + msg_len
       /\ content' = Slice(wire, 5, msg_len)
       /\ wire' = SubSeq(wire, 5 + msg_len, Len(wire))
       /\ decoded' = <<decode_message(Slice(wire, 5, msg_len))>>
    /\ codecPc' = "done"
    /\ UNCHANGED <<now, exceptCodec, codecMsg>>

\* a Message is constructed and nothing is on the connection
CodecInit ==
    /\ codecMsg \in CodecMessages
    /\ wire = <<>>
    /\ content = <<>>
    /\ decoded = <<>>
    /\ codecPc = "encode"

\* =====================================================================
\* cache/cache_key.py: generate_cache_key
\* =====================================================================
\* the names and texts used, as code points
ModelText == <<109, 111, 100, 101, 108>>

MessagesText == <<109, 101, 115, 115, 97, 103, 101, 115>>

TemperatureText == <<116, 101, 109, 112, 101, 114, 97, 116, 117, 114, 101>>

MaxTokensText == <<109, 97, 120, 95, 116, 111, 107, 101, 110, 115>>

TopPText == <<116, 111, 112, 95, 112>>

StreamText == <<115, 116, 114, 101, 97, 109>>

SeedText == <<115, 101, 101, 100>>

RoleText == <<114, 111, 108, 101>>

ContentText == <<99, 111, 110, 116, 101, 110, 116>>

UserText == <<117, 115, 101, 114>>

HiText == <<104, 105>>

\* a < b for str
StrLess(a, b) ==
    \E i \in 1..(Min(Len(a), Len(b)) + 1) :
        /\ \A k \in 1..(i - 1) : a[k] = b[k]
        /\ IF i > Len(a) THEN i <= Len(b)
           ELSE i <= Len(b) /\ a[i] < b[i]

keep_order(x) == x

\* json.dumps(sort_keys=True): the items of every dict, ordered by key
RECURSIVE sort_keys(_)
sort_keys(x) ==
    IF x.t = "dict"
    THEN LET before(i) == {j \in DOMAIN x.v : StrLess(x.v[j][1], x.v[i][1])}
             nth(k) == CHOOSE i \in DOMAIN x.v : Cardinality(before(i)) = k - 1
         IN JDict([k \in DOMAIN x.v |->
                     <<x.v[nth(k)][1], sort_keys(x.v[nth(k)][2])>>])
    ELSE IF x.t = "list" THEN JList([k \in DOMAIN x.v |-> sort_keys(x.v[k])])
    ELSE x

\* kwargs.get(name, default); kwargs is the sequence of the keyword
\* arguments as passed, <<name, value>> each
kwargs_get(kwargs, name, default) ==
    IF \E i \in DOMAIN kwargs : kwargs[i][1] = name
    THEN kwargs[CHOOSE i \in DOMAIN kwargs : kwargs[i][1] = name][2]
    ELSE default

\* the cache_data dict
cache_data(model, messages, kwargs) ==
    JDict(<< <<ModelText, JStr(model)>>,
             <<MessagesText, messages>>,
             <<TemperatureText, kwargs_get(kwargs, TemperatureText, JFloat(7))>>,
             <<MaxTokensText, kwargs_get(kwargs, MaxTokensText, JNull)>>,
             <<TopPText, kwargs_get(kwargs, TopPText, JNull)>> >>)

\* hashlib.sha256(b).hexdigest(), taken to be free of collisions: the
\* digest names the bytes that were hashed
sha256_hexdigest(b) == [sha256 |-> b]

generate_cache_key(model, messages, kwargs) ==
    sha256_hexdigest(
        utf8_encode(json_dumps(sort_keys(cache_data(model, messages, kwargs)))))

\* ---- the calls made: two model names; the same message with its keys in
\* either order, and two messages; keyword arguments with and without the
\* three that count, with others, in different orders
KeyModels == {<<109, 49>>, <<109, 50>>}

KeyMessages ==
    {JList(<<JDict(<< <<RoleText, JStr(UserText)>>,
                      <<ContentText, JStr(HiText)>> >>)>>),
     JList(<<JDict(<< <<ContentText, JStr(HiText)>>,
                      <<RoleText, JStr(UserText)>> >>)>>),
     JList(<<>>)}

KeyKwargs ==
    {<<>>,
     << <<TemperatureText, JFloat(8)>> >>,
     << <<TemperatureText, JInt(1)>> >>,
     << <<TemperatureText, JNull>>, <<MaxTokensText, JNull>> >>,
     << <<SeedText, JInt(2)>>, <<TemperatureText, JFloat(7)>>,
        <<StreamText, JBool(FALSE)>> >>,
     << <<MaxTokensText, JInt(100)>>, <<TopPText, JFloat(9)>> >>,
     << <<TopPText, JFloat(9)>>, <<SeedText, JInt(1)>>,
        <<MaxTokensText, JInt(100)>>, <<TemperatureText, JFloat(7)>> >>}

KeyCallArgs ==
    [model : KeyModels, messages : KeyMessages, kwargs : KeyKwargs]

\* generate_cache_key(model, messages, **kwargs) is called with the
\* arguments of call i and returns
GenerateCacheKey(i) ==
    /\ i \in DOMAIN keyCalls
    /\ Len(keyRet[i]) < MaxKeyEvals
    /\ keyRet' = [keyRet EXCEPT ![i] =
                     Append(@, generate_cache_key(keyCalls[i].model,
                                                  keyCalls[i].messages,
                                                  keyCalls[i].kwargs))]
    /\ UNCHANGED <<now, exceptKey, keyCalls, keyCalls0>>

\* two calls are about to be made
KeyInit ==
    /\ keyCalls \in [1..2 -> KeyCallArgs]
    /\ keyCalls0 = keyCalls
    /\ keyRet = <<<<>>, <<>>>>

\* =====================================================================
\* monitoring/metrics_collector.py: MetricsCollector
\* =====================================================================
\* values are whole milliseconds; a mean is the pair <<sum, count>> and a
\* median is given doubled
window_size == 300

\* max_samples: the default, and a small one
SampleLimits == {1000, 3}

MetricNames == {"t", "u"}

NoTags == <<>>

TagSets == {NoTags, [model |-> "m1"]}

Sample(name, type, value, tags) ==
    [name |-> name, type |-> type, value |-> value, tags |-> tags]

\* a feed is the sequence of the caller's bursts; the samples of one burst
\* are recorded one after the other at one reading of the clock

\* the timer samples 1..10, in three bursts
FeedTen ==
    <<[i \in 1..4 |-> Sample("t", "timer", i, NoTags)],
      [i \in 1..4 |-> Sample("t", "timer", i + 4, NoTags)],
      [i \in 1..2 |-> Sample("t", "timer", i + 8, NoTags)]>>

\* 101 timer samples in one burst, the values 1..101 in a scattered order,
\* and two more samples
FeedLong ==
    <<[i \in 1..101 |-> Sample("t", "timer", ((i * 37) % 101) + 1, NoTags)],
      <<Sample("t", "timer", 200, NoTags),
        Sample("t", "timer", 0, [model |-> "m1"])>>>>

\* samples of every type, with and without tags, with equal values, of two
\* metrics
FeedMixed ==
    <<<<Sample("t", "timer", 7, NoTags)>>,
      <<Sample("t", "timer", 3, [model |-> "m1"]),
        Sample("u", "counter", 2, NoTags)>>,
      <<Sample("t", "histogram", 7, [model |-> "m1"])>>,
      <<Sample("u", "gauge", 5, [model |-> "m1"])>>,
      <<Sample("t", "timer", 9, NoTags),
        Sample("u", "counter", 4, NoTags)>>>>

Feeds == {FeedTen, FeedLong, FeedMixed}

\* _metric_key
metric_key(name, tags) == <<name, tags>>

\* _tags_match
tags_match(metric_tags, filter_tags) ==
    \/ filter_tags = NoTags
    \/ \A k \in DOMAIN filter_tags :
          k \in DOMAIN metric_tags /\ metric_tags[k] = filter_tags[k]

\* deque(maxlen=max_samples) after appending every element of more
deque_extend(d, more, maxlen) ==
    LET all == d \o more IN
    IF Len(all) > maxlen
    THEN SubSeq(all, Len(all) - maxlen + 1, Len(all))
    ELSE all

\* values.sort(): the k-th value is the one with fewer than k smaller or
\* equal-and-earlier values before it
sorted_values(values) ==
    LET rank == [i \in DOMAIN values |->
                    1 + Cardinality({j \in DOMAIN values :
                                        \/ values[j] < values[i]
                                        \/ values[j] = values[i] /\ j < i})]
    IN [k \in DOMAIN values |->
          values[CHOOSE i \in DOMAIN values : rank[i] = k]]

percentile_last(sorted, percent) ==
    IF sorted = <<>> THEN 0 ELSE sorted[Len(sorted)]

\* _percentile, percentile given in hundredths; int(len * percentile) is
\* floor(len * percent / 100) for every length up to max_samples
percentile(sorted, percent) ==
    IF sorted = <<>> THEN 0
    ELSE LET index == (Len(sorted) * percent) \div 100 IN
         IF index >= Len(sorted) THEN sorted[Len(sorted)]
         ELSE sorted[index + 1]

RECURSIVE SumOf(_)
SumOf(values) ==
    IF values = <<>> THEN 0
    ELSE IF Len(values) = 1 THEN values[1]
    ELSE SumOf(FirstHalf(values)) + SumOf(SecondHalf(values))

\* statistics.median, doubled
median2(sorted) ==
    IF Len(sorted) % 2 = 1 THEN 2 * sorted[(Len(sorted) + 1) \div 2]
    ELSE sorted[Len(sorted) \div 2] + sorted[Len(sorted) \div 2 + 1]

\* the samples kept under name
samples_of(name) == IF name \in DOMAIN metrics THEN metrics[name] ELSE <<>>

\* get_metric_summary: None, or the MetricSummary
NoSummary == <<>>

get_metric_summary(name, tags, t) ==
    LET window_start == t - mCfg.window_size
        recent_metrics ==
            SelectSeq(samples_of(name),
                      LAMBDA m : m.timestamp >= window_start
                                 /\ tags_match(m.tags, tags))
        values == sorted_values([i \in DOMAIN recent_metrics |->
                                    recent_metrics[i].value])
    IN IF recent_metrics = <<>> THEN NoSummary
       ELSE <<[name |-> name,
               count |-> Len(values),
               sum |-> SumOf(values),
               min |-> values[1],
               max |-> values[Len(values)],
               mean |-> <<SumOf(values), Len(values)>>,
               median2 |-> median2(values),
               p95 |-> percentile(values, 95),
               p99 |-> percentile(values, 99),
               tags |-> tags]>>

\* the call made last, and the time it was made at
MetricsCalled(op, name, tags, ret) ==
    [op |-> op, name |-> name, tags |-> tags, ret |-> ret, at |-> now]

\* Metric(...) of a sample recorded at time t
metric_of(s, t) ==
    [type |-> s.type, value |-> s.value, timestamp |-> t, tags |-> s.tags]

\* record_counter / record_gauge / record_histogram / record_timer with
\* each sample of the next burst of the feed
MetricsRecord ==
    /\ feed # <<>>
    /\ LET burst == Head(feed)
           of_name(n) == SelectSeq(burst, LAMBDA s : s.name = n)
           of_key(k, type) ==
               SelectSeq(burst, LAMBDA s : s.type = type
                                           /\ metric_key(s.name, s.tags) = k)
           keys(type) == {metric_key(burst[i].name, burst[i].tags) :
                             i \in {j \in DOMAIN burst : burst[j].type = type}}
       IN /\ metrics' =
                [n \in DOMAIN metrics \cup {burst[i].name : i \in DOMAIN burst}
                   |-> deque_extend(samples_of(n),
                                    [i \in DOMAIN of_name(n) |->
                                        metric_of(of_name(n)[i], now)],
                                    mCfg.max_samples)]
          /\ counters' =
                [k \in DOMAIN counters \cup keys("counter") |->
                    (IF k \in DOMAIN counters THEN counters[k] ELSE 0)
                    + SumOf([i \in DOMAIN of_key(k, "counter") |->
                                of_key(k, "counter")[i].value])]
          /\ gauges' =
                [k \in DOMAIN gauges \cup keys("gauge") |->
                    IF of_key(k, "gauge") = <<>> THEN gauges[k]
                    ELSE of_key(k, "gauge")[Len(of_key(k, "gauge"))].value]
          /\ metricsRet' = MetricsCalled("record", burst[1].name,
                                         burst[1].tags, NoSummary)
    /\ feed' = Tail(feed)
    /\ UNCHANGED <<now, exceptMetrics, mCfg>>

MetricsGetSummary(name, tags) ==
    /\ metricsRet' = MetricsCalled("get_metric_summary", name, tags,
                                   get_metric_summary(name, tags, now))
    /\ UNCHANGED <<now, exceptMetrics, mCfg, feed, metrics, counters, gauges>>

\* clear_old_metrics
MetricsClearOld ==
    /\ LET kept(n) == SelectSeq(metrics[n],
                         LAMBDA m : m.timestamp >= now - mCfg.window_size)
       IN metrics' = [n \in {x \in DOMAIN metrics : kept(x) # <<>>} |->
                         kept(n)]
    /\ metricsRet' = MetricsCalled("clear_old_metrics", "None", NoTags,
                                   NoSummary)
    /\ UNCHANGED <<now, exceptMetrics, mCfg, feed, counters, gauges>>

\* reset
MetricsReset ==
    /\ metrics' = <<>>
    /\ counters' = <<>>
    /\ gauges' = <<>>
    /\ metricsRet' = MetricsCalled("reset", "None", NoTags, NoSummary)
    /\ UNCHANGED <<now, exceptMetrics, mCfg, feed>>

\* time.time() read two thirds of a window later
MetricsTick ==
    /\ now < MaxMetricsTime
    /\ now' = now + (2 * window_size) \div 3
    /\ UNCHANGED <<exceptMetrics, metricsVars>>

\* MetricsCollector.__init__
MetricsInit ==
    /\ \E limit \in SampleLimits :
          mCfg = [window_size |-> window_size, max_samples |-> limit]
    /\ feed \in Feeds
    /\ metrics = <<>>
    /\ counters = <<>>
    /\ gauges = <<>>
    /\ metricsRet = MetricsCalled("__init__", "None", NoTags, NoSummary)

\* =====================================================================
\* router/model_selector.py: the calls of a ModelSelector
\* =====================================================================
\* the conversations analyze_task is called with; a message may lack its
\* role or its content
SelConversations ==
    { <<>>,
      <<Msg("user", <<"hello">>)>>,
      <<Msg("user", <<"Debug", "~~~", "x", "=", "2">>)>>,
      <<Msg("assistant", <<"Debug", "~~~", "x", "=", "2">>)>>,
      <<Msg("user", <<"Debug">>), Msg("assistant", <<"summary">>),
        Msg("user", <<"~~~python", "x">>)>>,
      <<Msg("system", <<"WRITE", "python", "code">>),
        Msg("user", <<"Translate", "this", "summary">>)>>,
      <<Msg("user", <<"analyze", "and", "WRITE">>)>>,
      <<Msg("user", <<"2", "+", "3">>)>>,
      <<Msg("user", <<"translate", "from", "english", "to", "french",
                      "python", "code">>)>>,
      <<Msg("user", <<"Debug", "~~~", "translate", "into", "french">>)>>,
      <<Msg("user", <<"Debug", "~~~", "solve", "2", "+", "3", "matrix">>)>>,
      <<[role |-> "user"], Msg("user", <<"WRITE", "python", "code">>)>>,
      <<[content |-> <<"WRITE", "python", "code">>]>>,
      <<Msg("user", <<"Translate", "this", "summary">>),
        Msg("user", <<"analyze", "and", "WRITE">>)>> }

\* the lists of available models select_model is called with
SelAvailable ==
    { <<>>,
      ModelOrder,
      <<"openai/gpt-3.5-turbo", "codellama:13b">>,
      <<"codellama:13b", "openai/gpt-3.5-turbo">>,
      <<"mystery">>,
      <<"mystery", "llama3:8b">>,
      <<"openai/gpt-4", "mystery", "codellama:13b", "openai/gpt-4">>,
      <<"cognitivecomputations/dolphin-mistral-24b-venice-edition:free",
        "gemma3:12b", "anthropic/claude-3-haiku">> }

\* the preferences select_model is called with: None, some keys, all keys
SelPreferences ==
    {<<>>, [quality_priority |-> TRUE]}
    \cup [cost_sensitive : BOOLEAN, quality_priority : BOOLEAN,
          speed_priority : BOOLEAN, prefer_local : BOOLEAN]

\* preferences.get(key, default)
prefs_get(preferences, key, default) ==
    IF key \in DOMAIN preferences THEN preferences[key] ELSE default

\* the four preferences select_model reads
read_preferences(preferences) ==
    [cost_sensitive |-> prefs_get(preferences, "cost_sensitive", TRUE),
     quality_priority |-> prefs_get(preferences, "quality_priority", FALSE),
     speed_priority |-> prefs_get(preferences, "speed_priority", FALSE),
     prefer_local |-> prefs_get(preferences, "prefer_local", TRUE)]

SelCalled(op, args, ret) == [op |-> op, args |-> args, ret |-> ret]

\* analyze_task(messages); hash(combined_text) is taken as the text itself
SelAnalyzeTask(messages) ==
    LET text == combined_text(messages)
        cached == text \in DOMAIN task_cache
        ret == IF cached THEN task_cache[text] ELSE detect_task(text)
    IN /\ cached \/ Cardinality(DOMAIN task_cache) < MaxCached
       /\ task_cache' = [t \in DOMAIN task_cache \cup {text} |->
                            IF t = text THEN ret ELSE task_cache[t]]
       /\ selCall' = SelCalled("analyze_task", <<messages>>, ret)
       /\ UNCHANGED <<now, exceptSel>>

\* select_model(task_type, available_models, preferences) with the
\* arguments of the caller
SelSelectModel ==
    /\ selCall.op \in {"caller", "select_model"}
    /\ selCall' = SelCalled("select_model", selCall.args,
                     selector_select_model(selCall.args[1], selCall.args[2],
                                           read_preferences(selCall.args[3])))
    /\ UNCHANGED <<now, exceptSel, task_cache>>

\* get_fallback_models(primary_model)
SelGetFallbackModels(primary_model) ==
    /\ selCall' = SelCalled("get_fallback_models", <<primary_model>>,
                            get_fallback_models(primary_model))
    /\ UNCHANGED <<now, exceptSel, task_cache>>

\* ModelSelector.__init__
SelInit ==
    /\ task_cache = <<>>
    /\ selCall = SelCalled("__init__", <<>>, "None")

\* ModelSelector.__init__, and a caller with arguments for select_model
SelInitCaller ==
    /\ task_cache = <<>>
    /\ \E task_type \in TaskTypes, available_models \in SelAvailable,
          preferences \in SelPreferences :
          selCall = SelCalled("caller",
                        <<task_type, available_models, preferences>>, "None")

\* =====================================================================
\* router/model_router.py: the ModelHealth of the models of a router
\* =====================================================================
HealthModels == {"gemma3:12b", "openai/gpt-4"}

HealthCalls ==
    Len(healthLog["gemma3:12b"]) + Len(healthLog["openai/gpt-4"])

Logged(m, call) ==
    healthLog' = [healthLog EXCEPT ![m] = Append(@, [call |-> call, at |-> now])]

\* ModelRouter.record_success(model, response_time)
HealthRecordSuccess(m) ==
    /\ HealthCalls < MaxHealthCalls
    /\ model_health' = [model_health EXCEPT ![m] = health_record_success(@)]
    /\ Logged(m, "record_success")
    /\ UNCHANGED <<now, exceptHealth, routerCfg, adapters, routing_stats, fbRet,
                   routeRet>>

\* ModelRouter.record_failure(model)
HealthRecordFailure(m) ==
    /\ HealthCalls < MaxHealthCalls
    /\ model_health' = [model_health EXCEPT ![m] = health_record_failure(@, now)]
    /\ Logged(m, "record_failure")
    /\ UNCHANGED <<now, exceptHealth, routerCfg, adapters, routing_stats, fbRet,
                   routeRet>>

\* time.time() read half a recovery time later
HealthTick ==
    /\ now < MaxHealthTime
    /\ now' = now + HealthRecoveryTime \div 2
    /\ UNCHANGED <<exceptHealth, routerVars, healthVars>>

\* model_health = defaultdict(ModelHealth); the clock starts after the epoch
HealthInit ==
    /\ routerCfg = <<>> /\ adapters = {} /\ routing_stats = <<>>
    /\ model_health = [m \in HealthModels |-> NewHealth]
    /\ healthLog = [m \in HealthModels |-> <<>>]
    /\ fbRet = <<>>
    /\ routeRet = <<>>

\* =====================================================================
\* main.py, main_full.py: AIService
\* =====================================================================
\* adapter_params of handle_chat, the "params" of the streaming marker:
\* the request's parameters without messages and stream, with the model
\* that was selected
adapter_params(p, model) ==
    [k \in (DOMAIN p \ {"messages", "stream"}) \cup {"model"} |->
        IF k = "model" THEN model ELSE p[k]]

\* d[key] of a dict: KeyError(key) when the key is absent
dict_getitem(d, key) ==
    IF key \in DOMAIN d
    THEN [ok |-> TRUE, value |-> d[key], error |-> "None", type |-> "None"]
    ELSE [ok |-> FALSE, value |-> "None", error |-> "'" \o key \o "'",
          type |-> "KeyError"]

\* NeoIPCClient._handle_request around the handler: a returned dict goes
\* out as a RESPONSE, a raised exception as an ERROR
ReplyReturned(result) ==
    Reply("RESPONSE", result.status, result.data, result.error, "None")

ReplyRaised(error, type) == Reply("ERROR", "None", "None", error, type)

\* the rest of the "chat" IPC handler of AIService after
\* ChatHandler.handle_chat returned, and the reply _handle_request sends;
\* the adapter's chat() of the streaming branch returns result or raises
ServiceAnswer(t, chat_ok, result) ==
    /\ handlers[t].pc = "done"
    /\ handlers[t].reply = NoReply
    /\ LET h == handlers[t]
           marker_params == adapter_params(h.params, h.response.params_model)
           messages == dict_getitem(marker_params, "messages")
           answered(h1, reply) ==
               handlers' = [handlers EXCEPT ![t] = [h1 EXCEPT !.reply = reply]]
       IN  IF h.response.status # "streaming"
           THEN answered(h, ReplyReturned(h.response))
           ELSE IF ~messages.ok
           THEN answered(h, ReplyRaised(messages.error, messages.type))
           ELSE IF chat_ok
           THEN answered(Called(h, h.adapter_name, h.model, TRUE, result),
                         ReplyReturned(Response("success", result, "None", "None")))
           ELSE answered(Called(h, h.adapter_name, h.model, FALSE, ErrorOf(h.model)),
                         ReplyRaised(ErrorOf(h.model), "Exception"))
    /\ UNCHANGED <<now, exceptChat, cacheVars, routerVars, chatCfg, chatReqs>>

\* the requests of the service: those of the handler and a streaming one
\* for a model of OpenRouter
ServiceParams ==
    ChatParams \cup {[messages |-> "hello", model |-> "openai/gpt-4",
                      stream |-> TRUE]}

\* AIService._init_handlers: ChatHandler(self.adapters), no component set
ServiceInit ==
    /\ ChatInitWith(FALSE, FALSE)
    /\ \E configured \in AdapterSets :
          RouterInitWith([enabled |-> TRUE, enable_fallback |-> TRUE,
                          track_model_health |-> TRUE], configured)

\* =====================================================================
\* rate_limiter/rate_limiter.py: RateLimiter.wait_if_needed
\* =====================================================================
WaitTasks == {"w1"}

\* the tokens and max_wait arguments of the calls (seconds); 3 tokens are
\* more than a client's per-second bucket ever holds
WaitTokenArgs == {1, 3}
MaxWaitArgs == {0, 2}

\* A time or a duration in seconds is the fraction <<num, den>>
Frac(num, den) == <<num, den>>

FracLeq(a, b) == a[1] * b[2] <= b[1] * a[2]

FracMin(a, b) == IF FracLeq(a, b) THEN a ELSE b

FracAdd(a, b) == Frac(a[1] * b[2] + b[1] * a[2], a[2] * b[2])

\* `if wait_time is None or wait_time <= 0: wait_time = 0.1`
DefaultWait == Frac(1, 10)

wait_or_default(wait) ==
    IF wait = NoWait \/ wait[1] <= 0 THEN DefaultWait ELSE Frac(wait[1], wait[2])

\* A slip in the timeout test: only the time already spent is compared
timed_out_elapsed(elapsed, wait_time, max_wait) ==
    FracLeq(Frac(max_wait, 1), Frac(elapsed, 1))

\* `if elapsed + wait_time > max_wait`
timed_out(elapsed, wait_time, max_wait) ==
    ~FracLeq(FracAdd(Frac(elapsed, 1), wait_time), Frac(max_wait, 1))

\* a task that is not in wait_if_needed; wake is the time its sleep ends
IdleWaiter ==
    [pc |-> "idle", client |-> "None", priority |-> "None", tokens |-> 0,
     max_wait |-> 0, start_time |-> 0, polls |-> 0, wake |-> Frac(0, 1),
     result |-> "None"]

\* a task calls wait_if_needed, once: the call up to its first await
WaitBegin(t, client, priority, tokens, max_wait) ==
    /\ waiters[t].pc = "idle"
    /\ now + max_wait <= MaxWaitTime
    /\ waiters' = [waiters EXCEPT ![t] =
          [IdleWaiter EXCEPT !.pc = "poll", !.client = client,
                             !.priority = priority, !.tokens = tokens,
                             !.max_wait = max_wait, !.start_time = now]]
    /\ UNCHANGED <<now, exceptWait, limiterVars>>

\* one turn of the loop: check_rate_limit, then return or sleep
WaitPoll(t) ==
    /\ waiters[t].pc = "poll"
    /\ LET w == waiters[t]
           wait_time == wait_or_default(limRet'.wait)
           elapsed == now - w.start_time
           polled == [w EXCEPT !.polls = w.polls + 1]
       IN  /\ check_rate_limit(w.client, w.priority, w.tokens)
           /\ waiters' = [waiters EXCEPT ![t] =
                IF limRet'.allowed
                THEN [polled EXCEPT !.pc = "done", !.result = "True"]
                ELSE IF timed_out(elapsed, wait_time, w.max_wait)
                THEN [polled EXCEPT !.pc = "done", !.result = "False"]
                ELSE [polled EXCEPT
                        !.pc = "sleeping",
                        !.wake = FracAdd(Frac(now, 1),
                                         FracMin(wait_time,
                                                 Frac(w.max_wait - elapsed, 1)))]]
    /\ UNCHANGED <<now, exceptWait>>

\* asyncio.sleep returns: not before the time asked for
WaitWake(t) ==
    /\ waiters[t].pc = "sleeping"
    /\ FracLeq(waiters[t].wake, Frac(now, 1))
    /\ waiters' = [waiters EXCEPT ![t].pc = "poll"]
    /\ UNCHANGED <<now, exceptWait, limiterVars>>

\* time.time() read one second later, while calls wait
WaitTick ==
    /\ now < MaxWaitTime
    /\ now' = now + 1
    /\ UNCHANGED <<exceptWait, limiterVars, waitVars>>

WaitInit ==
    /\ waiters = [t \in WaitTasks |-> IdleWaiter]

\* =====================================================================
\* rate_limiter/token_bucket.py: TokenBucket.consume_with_wait
\* =====================================================================
CwTasks == {"t1", "t2"}

\* a bucket that refills one token in three seconds
SlowBucket == [capacity |-> 2, refill_rate |-> TokenUnit \div 3]

\* max_wait=None
NoMaxWait == -1

\* the tokens and max_wait arguments of the calls
CwAmounts == {TokenUnit}
CwMaxWaits == {NoMaxWait, 1}

\* a task that is not in consume_with_wait; wake is the time its sleep ends
IdleCw ==
    [pc |-> "idle", tokens |-> 0, max_wait |-> NoMaxWait, start_time |-> 0,
     wake |-> Frac(0, 1), sleeps |-> 0, result |-> "None"]

\* a task calls consume_with_wait, once: the call up to its first await
CwBegin(t, n, max_wait) ==
    /\ cw[t].pc = "idle"
    /\ cw' = [cw EXCEPT ![t] = [IdleCw EXCEPT !.pc = "consume", !.tokens = n,
                                              !.max_wait = max_wait,
                                              !.start_time = now]]
    /\ UNCHANGED <<now, exceptLock, bucketVars, lock>>

\* `if await self.consume(tokens)` once the lock is free, and the timeout
\* test after a refusal
CwConsume(t) ==
    /\ cw[t].pc = "consume"
    /\ lock = "None"
    /\ Len(bucketLog) < MaxBucketOps
    /\ LET c == cw[t]
           res == consume(bucket, c.tokens, now)
           elapsed == now - c.start_time
       IN  /\ bucket' = res.bucket
           /\ BucketReturned("consume", res.ok, res.bucket.tokens, NoWait)
           /\ bucketLog' = Append(bucketLog,
                                  [n |-> c.tokens, ok |-> res.ok, at |-> now])
           /\ cw' = [cw EXCEPT ![t] =
                IF res.ok THEN [c EXCEPT !.pc = "done", !.result = "True"]
                ELSE IF c.max_wait # NoMaxWait /\ elapsed >= c.max_wait
                THEN [c EXCEPT !.pc = "done", !.result = "False"]
                ELSE [c EXCEPT !.pc = "compute"]]
    /\ UNCHANGED <<now, exceptLock, lock>>

\* asyncio.sleep(wait_time) is awaited inside `async with self._lock`
holder_while_asleep(t) == t

\* `async with self._lock` of the wait computation once the lock is free:
\* refill, and when tokens are still missing the sleep is begun
CwCompute(t) ==
    /\ cw[t].pc = "compute"
    /\ lock = "None"
    /\ LET c == cw[t]
           r == refill(bucket, now)
           needed == c.tokens - r.tokens
           remaining == c.max_wait - (now - c.start_time)
           wait_time == IF c.max_wait # NoMaxWait
                        THEN FracMin(Frac(needed, r.refill_rate), Frac(remaining, 1))
                        ELSE Frac(needed, r.refill_rate)
       IN  /\ bucket' = r
           /\ IF r.tokens < c.tokens /\ wait_time[1] > 0
              THEN /\ lock' = holder_while_asleep(t)
                   /\ cw' = [cw EXCEPT ![t] =
                               [c EXCEPT !.pc = "sleeping",
                                         !.sleeps = c.sleeps + 1,
                                         !.wake = FracAdd(Frac(now, 1), wait_time)]]
              ELSE /\ lock' = "None"
                   /\ cw' = [cw EXCEPT ![t].pc = "consume"]
    /\ UNCHANGED <<now, exceptLock, bucketRet, bucketLog>>

\* asyncio.sleep returns, not before the time asked for, and the
\* `async with` block ends
CwWake(t) ==
    /\ cw[t].pc = "sleeping"
    /\ FracLeq(cw[t].wake, Frac(now, 1))
    /\ lock' = IF lock = t THEN "None" ELSE lock
    /\ cw' = [cw EXCEPT ![t].pc = "consume"]
    /\ UNCHANGED <<now, exceptLock, bucketVars>>

CwInit ==
    /\ lock = "None"
    /\ cw = [t \in CwTasks |-> IdleCw]

\* =====================================================================
\* router/model_router.py: ModelRouter.get_fallback_model
\* =====================================================================
\* the models whose adapter call failed
FailedModels ==
    {"gemma3:12b", "openai/gpt-4", "openai/gpt-3.5-turbo",
     "anthropic/claude-3-haiku", "mystery"}

\* a caller asks get_fallback_model(failed_model)
RouterGetFallback(failed_model) ==
    /\ fbRet.calls < MaxFallbackCalls
    /\ LET res == router_get_fallback_model(failed_model, model_health,
                                            routing_stats)
       IN  /\ model_health' = res.health
           /\ routing_stats' = res.stats
           /\ fbRet' = [calls |-> fbRet.calls + 1, failed |-> failed_model,
                        found |-> res.found, model |-> res.model,
                        adapter |-> res.adapter]
    /\ UNCHANGED <<now, exceptHealth, routerCfg, adapters, healthLog, routeRet>>

\* ModelRouter.__init__ for a RouterConfig and the adapters of the service
FallbackInit ==
    /\ \E fb \in BOOLEAN, track \in BOOLEAN, configured \in AdapterSets :
          RouterInitWith([enabled |-> TRUE, enable_fallback |-> fb,
                          track_model_health |-> track], configured)
    /\ healthLog = <<>>
    /\ fbRet = [calls |-> 0, failed |-> "None", found |-> FALSE,
                model |-> "None", adapter |-> "None"]
    /\ routeRet = <<>>

\* =====================================================================
\* ipc/client.py: register_service, _heartbeat_loop, disconnect
\* =====================================================================
\* asyncio.sleep(30)
HeartbeatInterval == 30

\* the calls on a client that connect() has returned for: register_service
\* ("none", "sending" while _send_message is awaited, "done", "failed"),
\* disconnect ("none", "closing" while wait_closed is awaited, "returned"),
\* run (entered or not); the time the heartbeat task was created and the
\* time its sleep ends; whether a heartbeat send raised; and, per frame of
\* the outbox, when it was written
NewBeat ==
    [reg |-> "none", disc |-> "none", ran |-> FALSE, started |-> NoTime,
     wake |-> NoTime, failed |-> FALSE, at |-> <<>>]

\* the frames a call wrote, with the time of writing
BeatWrote(sent) ==
    /\ outbox' = outbox \o sent.wrote
    /\ sentFor' = sentFor \o [k \in DOMAIN sent.wrote |-> 0]

WrittenAt(sent) == beat.at \o [k \in DOMAIN sent.wrote |-> now]

\* register_service up to `await self._send_message(msg)`: RuntimeError
\* when not connected, the exception of _send_message when it raises
BeatRegisterSend ==
    /\ beat.reg = "none"
    /\ LET sent == send_message(register_msg) IN
       IF ~connected
       THEN /\ beat' = [beat EXCEPT !.reg = "failed"]
            /\ UNCHANGED <<outbox, sentFor>>
       ELSE /\ BeatWrote(sent)
            /\ beat' = [beat EXCEPT !.reg = IF sent.raised = <<>>
                                            THEN "sending" ELSE "failed",
                                    !.at = WrittenAt(sent)]
    /\ UNCHANGED <<now, exceptBeat, ipcHandlers, connected, writable, running,
                   received, tasks, heartbeat>>

\* A slip in _heartbeat_loop: the loop goes on after a send that raised
loop_after_send_retrying(exc) == IF connected THEN "sleeping" ELSE "stopped"

\* _heartbeat_loop after _send_message: `break` when it raised, else
\* `while self.connected`
loop_after_send(exc) ==
    IF exc = <<>> /\ connected THEN "sleeping" ELSE "stopped"

\* register_service after _send_message: drain() returned (ok) or raised
\* on a connection that is gone; asyncio.create_task(_heartbeat_loop()),
\* and the task up to its first sleep
BeatRegisterDone(ok) ==
    /\ beat.reg = "sending"
    /\ ok \/ ~writable
    /\ IF ok
       THEN /\ heartbeat' = IF connected THEN "sleeping" ELSE "stopped"
            /\ beat' = [beat EXCEPT !.reg = "done", !.started = now,
                                    !.wake = now + HeartbeatInterval]
       ELSE /\ heartbeat' = heartbeat
            /\ beat' = [beat EXCEPT !.reg = "failed"]
    /\ UNCHANGED <<now, exceptBeat, ipcHandlers, connected, writable, running,
                   received, tasks, outbox, sentFor>>

\* run() is entered after register_service
BeatRun ==
    /\ beat.reg = "done" /\ ~beat.ran
    /\ connected
    /\ running' = TRUE
    /\ beat' = [beat EXCEPT !.ran = TRUE]
    /\ UNCHANGED <<now, exceptBeat, ipcHandlers, connected, writable,
                   received, tasks, outbox, sentFor, heartbeat>>

\* _heartbeat_loop: asyncio.sleep(30) is over, the HEARTBEAT is sent, and
\* the loop sleeps again or ends
BeatHeartbeat ==
    /\ heartbeat = "sleeping"
    /\ now >= beat.wake
    /\ LET sent == send_message(heartbeat_msg) IN
       /\ BeatWrote(sent)
       /\ heartbeat' = loop_after_send(sent.raised)
       /\ beat' = [beat EXCEPT !.at = WrittenAt(sent),
                               !.wake = now + HeartbeatInterval,
                               !.failed = @ \/ sent.raised # <<>>]
    /\ UNCHANGED <<now, exceptBeat, ipcHandlers, connected, writable, running,
                   received, tasks>>

\* disconnect() up to `await self.writer.wait_closed()`: the heartbeat task,
\* if there is one, is cancelled, and the writer is closed
BeatDisconnectBegin ==
    /\ beat.disc = "none"
    /\ heartbeat' = IF heartbeat = "none" THEN "none" ELSE "stopped"
    /\ writable' = FALSE
    /\ beat' = [beat EXCEPT !.disc = "closing"]
    /\ UNCHANGED <<now, exceptBeat, ipcHandlers, connected, running,
                   received, tasks, outbox, sentFor>>

\* disconnect() after wait_closed: connected = False, and it returns
BeatDisconnectEnd ==
    /\ beat.disc = "closing"
    /\ connected' = FALSE
    /\ beat' = [beat EXCEPT !.disc = "returned"]
    /\ UNCHANGED <<now, exceptBeat, ipcHandlers, writable, running,
                   received, tasks, outbox, sentFor, heartbeat>>

\* time.time() half an interval later; the event loop runs a timer that is
\* due before time moves on
BeatTick ==
    /\ now < MaxBeatTime
    /\ ~ (heartbeat = "sleeping" /\ now >= beat.wake)
    /\ now' = now + HeartbeatInterval \div 2
    /\ UNCHANGED <<exceptBeat, ipcVars, beatVars>>

\* connect() has returned; nothing is registered and run() is not entered
BeatInit ==
    /\ ipcHandlers = {"chat"}
    /\ connected = TRUE
    /\ writable = TRUE
    /\ running = FALSE
    /\ received = <<>>
    /\ tasks = <<>>
    /\ outbox = <<>>
    /\ sentFor = <<>>
    /\ heartbeat = "none"
    /\ beat = NewBeat

\* =====================================================================
\* router/model_router.py: ModelRouter.select_model and the health calls
\* =====================================================================
\* the models whose calls are recorded: the Ollama models
RouteModels == {"gemma3:12b", "llama3:8b", "codellama:13b"}

\* the requested_model arguments: none, a routed name, and names that
\* start with "gpt"
RouteRequests == {"None", "gemma3:12b", "openai/gpt-4", "gpt-4"}

\* the models with calls that succeed
SuccessModels == {"gemma3:12b"}

NoRoute == [calls |-> 0, requested |-> "None", ok |-> FALSE,
            model |-> "None", adapter |-> "None"]

\* a caller asks select_model(messages, requested_model)
RouteSelectModel(text, requested_model) ==
    /\ routeRet.calls < MaxRouteCalls
    /\ LET sel == router_select_model(text, requested_model, model_health,
                                      routing_stats)
       IN  /\ routing_stats' = sel.stats
           /\ routeRet' = [calls |-> routeRet.calls + 1,
                           requested |-> requested_model, ok |-> sel.ok,
                           model |-> sel.model, adapter |-> sel.adapter]
    /\ UNCHANGED <<now, exceptHealth, routerCfg, adapters, model_health,
                   healthLog, fbRet>>

\* ModelRouter.record_failure(model)
RouteRecordFailure(m) ==
    /\ model_health[m].failures < MaxModelFailures
    /\ model_health' = [model_health EXCEPT ![m] = health_record_failure(@, now)]
    /\ UNCHANGED <<now, exceptHealth, routerCfg, adapters, routing_stats,
                   healthVars>>

\* ModelRouter.record_success(model, response_time)
RouteRecordSuccess(m) ==
    /\ model_health[m].successes < MaxSuccesses
    /\ model_health' = [model_health EXCEPT ![m] = health_record_success(@)]
    /\ UNCHANGED <<now, exceptHealth, routerCfg, adapters, routing_stats,
                   healthVars>>

\* time.time() read a recovery time later
RouteTick ==
    /\ now < MaxRouteTime
    /\ now' = now + HealthRecoveryTime
    /\ UNCHANGED <<exceptHealth, routerVars, healthVars>>

\* ModelRouter.__init__ for a RouterConfig with routing enabled
RouteInit ==
    /\ \E track \in BOOLEAN, configured \in AdapterSets :
          RouterInitWith([enabled |-> TRUE, enable_fallback |-> TRUE,
                          track_model_health |-> track], configured)
    /\ healthLog = <<>>
    /\ fbRet = <<>>
    /\ routeRet = NoRoute

\* =====================================================================
\* ipc/client.py: _send_message called by tasks that run concurrently
\* =====================================================================
\* the tasks that send: two _handle_request tasks, the heartbeat task and
\* a caller of send_streaming_response
SendTasks == {"h1", "h2", "hb", "st"}

StreamingText == <<115, 116, 114, 101, 97, 109, 105, 110, 103>>

FinalText == <<102, 105, 110, 97, 108>>

StatusText == <<115, 116, 97, 116, 117, 115>>

\* the Message each task builds: the RESPONSE of _handle_request, the
\* HEARTBEAT of _heartbeat_loop, the final chunk of send_streaming_response
StreamMessage(t) ==
    CASE t = "h1" -> Message(RESPONSE, <<114, 49>>, CodecService, CodecMethod,
                             JDict(<< <<StatusText, JStr(<<111, 107>>)>> >>),
                             JDict(<<>>))
      [] t = "h2" -> Message(RESPONSE, <<114, 50>>, CodecService, CodecMethod,
                             JDict(<<>>), JDict(<<>>))
      [] t = "hb" -> Message(HEARTBEAT, <<>>, CodecService, <<>>,
                             JBytes(<<>>), JDict(<<>>))
      [] t = "st" -> Message(RESPONSE, <<114, 49>>, CodecService, CodecMethod,
                             JStr(HiText),
                             JDict(<< <<StreamingText, JStr(TrueText)>>,
                                      <<FinalText, JStr(TrueText)>> >>))

\* A slip in the writer: new data goes in front of the bytes still queued
transport_write_front(buf, data) == data \o buf

\* StreamWriter.write(data): the bytes are queued behind those not yet sent
transport_write(buf, data) == buf \o data

\* _send_message up to its await: encode_message(msg), writer.write(data)
StreamSend(t) ==
    /\ senders[t] = "idle"
    /\ Len(written) < MaxSends
    /\ sendbuf' = transport_write(sendbuf, encode_message(StreamMessage(t)))
    /\ written' = Append(written, StreamMessage(t))
    /\ senders' = [senders EXCEPT ![t] = "drain"]
    /\ UNCHANGED <<now, exceptStream, codecVars>>

\* the connection takes all the queued bytes, or the next few of them
StreamFlush(all) ==
    /\ sendbuf # <<>>
    /\ LET n == IF all THEN Len(sendbuf) ELSE Min(FlushChunk, Len(sendbuf))
       IN  /\ wire' = wire \o SubSeq(sendbuf, 1, n)
           /\ sendbuf' = SubSeq(sendbuf, n + 1, Len(sendbuf))
    /\ UNCHANGED <<now, exceptStream, codecMsg, content, decoded, codecPc,
                   senders, written>>

\* await self.writer.drain() returns: _send_message is over
StreamDrained(t) ==
    /\ senders[t] = "drain"
    /\ senders' = [senders EXCEPT ![t] = "idle"]
    /\ UNCHANGED <<now, exceptStream, codecVars, sendbuf, written>>

\* a connected client with nothing written
StreamInit ==
    /\ senders = [t \in SendTasks |-> "idle"]
    /\ sendbuf = <<>>
    /\ written = <<>>

\* =====================================================================
\* specifications, one per component
\* =====================================================================
\* A specification constructs its own component; the variables of the
\* components it does not construct hold nothing.
CacheNone ==
    /\ cacheCfg = <<>> /\ cache = <<>> /\ files = <<>>
    /\ hits = 0 /\ misses = 0 /\ evictions = 0
    /\ cacheRet = "None" /\ cacheOps = 0 /\ recency = <<>> /\ setTtl = <<>>

BucketNone == bucket = <<>> /\ bucketRet = <<>> /\ bucketLog = <<>>

LimiterNone ==
    /\ limCfg = <<>> /\ limBuckets = <<>>
    /\ total_requests = 0 /\ rejected_requests = 0 /\ client_stats = <<>>
    /\ limCall = <<>> /\ limRet = <<>> /\ limReason = "None"

BreakerNone ==
    breaker = <<>> /\ breakerRet = TRUE /\ breakerOp = "None" /\ streak = 0
    /\ stateBefore = "None"

RetryNone ==
    /\ rtCfg = <<>> /\ callers = <<>>
    /\ retries = 0 /\ total_errors = 0 /\ rtCalls = 0

ChatNone ==
    /\ chatCfg = <<>> /\ handlers = <<>> /\ chatReqs = 0
    /\ routerCfg = <<>> /\ adapters = {} /\ model_health = <<>>
    /\ routing_stats = <<>>

IpcNone ==
    /\ ipcHandlers = {} /\ connected = FALSE /\ writable = FALSE
    /\ running = FALSE /\ received = <<>> /\ tasks = <<>>
    /\ outbox = <<>> /\ sentFor = <<>> /\ heartbeat = "stopped"

CodecNone ==
    /\ codecMsg = <<>> /\ wire = <<>> /\ content = <<>> /\ decoded = <<>>
    /\ codecPc = "None"

KeyNone == keyCalls = <<>> /\ keyCalls0 = <<>> /\ keyRet = <<>>

MetricsNone ==
    /\ mCfg = <<>> /\ feed = <<>> /\ metrics = <<>> /\ counters = <<>>
    /\ gauges = <<>> /\ metricsRet = <<>>

SelNone == task_cache = <<>> /\ selCall = <<>>

HealthNone == healthLog = <<>> /\ fbRet = <<>> /\ routeRet = <<>>

WaitNone == waiters = <<>>

LockNone == lock = "None" /\ cw = <<>>

BeatNone == beat = <<>>

StreamNone == senders = <<>> /\ sendbuf = <<>> /\ written = <<>>

\* no connection, no message to encode, no key to derive
WireNone == IpcNone /\ CodecNone /\ KeyNone

CacheNext ==
    \/ \E k \in Keys : CacheGet(k)
    \/ \E k \in Keys, v \in Values, t \in TtlArgs,
          s \in (IF cacheCfg.storage_type = "file" THEN BOOLEAN ELSE {TRUE}) :
          CacheSet(k, v, t, s)
    \/ \E k \in Keys : CacheDelete(k)
    \/ CacheClear
    \/ CacheCleanupExpired
    \/ Tick

InitCache ==
    /\ now = 0 /\ CacheInit
    /\ BucketNone /\ LimiterNone /\ BreakerNone /\ RetryNone /\ ChatNone
    /\ WireNone
    /\ MetricsNone
    /\ SelNone
    /\ HealthNone
    /\ WaitNone
    /\ LockNone
    /\ BeatNone
    /\ StreamNone

SpecCache == InitCache /\ [][CacheNext]_vars

BucketNext ==
    \/ \E n \in ConsumeAmounts : BucketConsume(n)
    \/ BucketGetTokens
    \/ \E n \in ConsumeAmounts : BucketGetWaitTime(n)
    \/ Tick

InitBucket ==
    /\ now = 0 /\ BucketInit
    /\ CacheNone /\ LimiterNone /\ BreakerNone /\ RetryNone /\ ChatNone
    /\ WireNone
    /\ MetricsNone
    /\ SelNone
    /\ HealthNone
    /\ WaitNone
    /\ LockNone
    /\ BeatNone
    /\ StreamNone

SpecBucket == InitBucket /\ [][BucketNext]_vars

LimiterNext ==
    \/ \E c \in Clients, p \in Priorities, n \in TokenArgs :
          CheckRateLimit(c, p, n)
    \/ \E c \in Clients : ResetClient(c)
    \/ Tick

InitLimiter ==
    /\ now = 0 /\ LimiterInit
    /\ CacheNone /\ BucketNone /\ BreakerNone /\ RetryNone /\ ChatNone
    /\ WireNone
    /\ MetricsNone
    /\ SelNone
    /\ HealthNone
    /\ WaitNone
    /\ LockNone
    /\ BeatNone
    /\ StreamNone

SpecLimiter == InitLimiter /\ [][LimiterNext]_vars

BreakerNext ==
    \/ BreakerRecordSuccess
    \/ BreakerRecordFailure
    \/ BreakerCanAttempt
    \/ Tick

InitBreaker ==
    /\ now = 0 /\ BreakerInit
    /\ CacheNone /\ BucketNone /\ LimiterNone /\ RetryNone /\ ChatNone
    /\ WireNone
    /\ MetricsNone
    /\ SelNone
    /\ HealthNone
    /\ WaitNone
    /\ LockNone
    /\ BeatNone
    /\ StreamNone

SpecBreaker == InitBreaker /\ [][BreakerNext]_vars

\* breakers of every small failure_threshold
InitBreakerAny ==
    /\ now = 0 /\ BreakerInitAny
    /\ CacheNone /\ BucketNone /\ LimiterNone /\ RetryNone /\ ChatNone
    /\ WireNone
    /\ MetricsNone
    /\ SelNone
    /\ HealthNone
    /\ WaitNone
    /\ LockNone
    /\ BeatNone
    /\ StreamNone

SpecBreakerAny == InitBreakerAny /\ [][BreakerNext]_vars

RetryNext ==
    \/ \E t \in Tasks : RetryStart(t)
    \/ \E t \in Tasks : RetryAttempt(t)
    \/ \E t \in Tasks : RetryOpReturns(t)
    \/ \E t \in Tasks, kind \in OpErrors : RetryOpRaises(t, kind)
    \/ \E t \in Tasks : RetryWake(t)
    \/ RetryTick

InitRetry ==
    /\ now = 0 /\ RetryInit /\ BreakerInit
    /\ CacheNone /\ BucketNone /\ LimiterNone /\ ChatNone
    /\ WireNone
    /\ MetricsNone
    /\ SelNone
    /\ HealthNone
    /\ WaitNone
    /\ LockNone
    /\ BeatNone
    /\ StreamNone

SpecRetry == InitRetry /\ [][RetryNext]_vars

ChatNext ==
    \/ \E t \in ChatTasks, p \in ChatParams : ChatBegin(t, p)
    \/ \E t \in ChatTasks, result \in Values : ChatPrimaryReturns(t, result)
    \/ \E t \in ChatTasks : ChatPrimaryRaises(t)
    \/ \E t \in ChatTasks, result \in Values : ChatFallbackReturns(t, result)
    \/ \E t \in ChatTasks : ChatFallbackRaises(t)
    \/ ChatTick

InitChat ==
    /\ now = 0 /\ ChatInit /\ CacheInit
    /\ BucketNone /\ LimiterNone /\ BreakerNone /\ RetryNone
    /\ WireNone
    /\ MetricsNone
    /\ SelNone
    /\ HealthNone
    /\ WaitNone
    /\ LockNone
    /\ BeatNone
    /\ StreamNone

SpecChat == InitChat /\ [][ChatNext]_vars

IpcNext ==
    \/ \E frame \in InFrames : IpcRead(frame)
    \/ IpcReadEnds
    \/ \E i \in 1..MaxFrames : IpcHandleRequest(i)
    \/ \E i \in 1..MaxFrames, result \in HandlerResults :
          IpcHandlerReturns(i, result)
    \/ \E i \in 1..MaxFrames, e \in HandlerErrors : IpcHandlerRaises(i, e)
    \/ IpcDisconnect
    \/ IpcConnectionLost

InitIpc ==
    /\ now = 0 /\ IpcInit /\ CodecNone /\ KeyNone
    /\ CacheNone /\ BucketNone /\ LimiterNone /\ BreakerNone /\ RetryNone
    /\ ChatNone
    /\ MetricsNone
    /\ SelNone
    /\ HealthNone
    /\ WaitNone
    /\ LockNone
    /\ BeatNone
    /\ StreamNone

\* the event loop runs every task that was created, and a handler that was
\* called returns or raises
IpcFairness ==
    \A i \in 1..MaxFrames :
        /\ WF_vars(IpcHandleRequest(i))
        /\ WF_vars(\/ \E result \in HandlerResults :
                         IpcHandlerReturns(i, result)
                   \/ \E e \in HandlerErrors : IpcHandlerRaises(i, e))

\* the receive loop and its tasks while no heartbeat is due
SpecIpc == InitIpc /\ [][IpcNext]_vars /\ IpcFairness

\* the receive loop, its tasks and the heartbeat task
LoopNext ==
    \/ IpcNext
    \/ IpcHeartbeat

SpecLoop == InitIpc /\ [][LoopNext]_vars

CodecNext ==
    \/ CodecSend
    \/ CodecReadMessage

InitCodec ==
    /\ now = 0 /\ CodecInit /\ IpcNone /\ KeyNone
    /\ CacheNone /\ BucketNone /\ LimiterNone /\ BreakerNone /\ RetryNone
    /\ ChatNone
    /\ MetricsNone
    /\ SelNone
    /\ HealthNone
    /\ WaitNone
    /\ LockNone
    /\ BeatNone
    /\ StreamNone

SpecCodec == InitCodec /\ [][CodecNext]_vars

KeyNext == \E i \in 1..2 : GenerateCacheKey(i)

InitKey ==
    /\ now = 0 /\ KeyInit /\ IpcNone /\ CodecNone
    /\ CacheNone /\ BucketNone /\ LimiterNone /\ BreakerNone /\ RetryNone
    /\ ChatNone
    /\ MetricsNone
    /\ SelNone
    /\ HealthNone
    /\ WaitNone
    /\ LockNone
    /\ BeatNone
    /\ StreamNone

SpecKey == InitKey /\ [][KeyNext]_vars

MetricsNext ==
    \/ MetricsRecord
    \/ \E name \in MetricNames, tags \in TagSets : MetricsGetSummary(name, tags)
    \/ MetricsClearOld
    \/ MetricsReset
    \/ MetricsTick

InitMetrics ==
    /\ now = 0 /\ MetricsInit /\ WireNone
    /\ CacheNone /\ BucketNone /\ LimiterNone /\ BreakerNone /\ RetryNone
    /\ ChatNone
    /\ SelNone
    /\ HealthNone
    /\ WaitNone
    /\ LockNone
    /\ BeatNone
    /\ StreamNone

SpecMetrics == InitMetrics /\ [][MetricsNext]_vars

SelNext ==
    \/ \E messages \in SelConversations : SelAnalyzeTask(messages)
    \/ \E primary_model \in AllModels : SelGetFallbackModels(primary_model)

InitSel ==
    /\ now = 0 /\ SelInit /\ WireNone /\ MetricsNone
    /\ CacheNone /\ BucketNone /\ LimiterNone /\ BreakerNone /\ RetryNone
    /\ ChatNone
    /\ HealthNone
    /\ WaitNone
    /\ LockNone
    /\ BeatNone
    /\ StreamNone

SpecSel == InitSel /\ [][SelNext]_vars

SelectNext == SelSelectModel

InitSelect ==
    /\ now = 0 /\ SelInitCaller /\ WireNone /\ MetricsNone
    /\ CacheNone /\ BucketNone /\ LimiterNone /\ BreakerNone /\ RetryNone
    /\ ChatNone
    /\ HealthNone
    /\ WaitNone
    /\ LockNone
    /\ BeatNone
    /\ StreamNone

SpecSelect == InitSelect /\ [][SelectNext]_vars

HealthNext ==
    \/ \E m \in HealthModels : HealthRecordSuccess(m)
    \/ \E m \in HealthModels : HealthRecordFailure(m)
    \/ HealthTick

InitHealth ==
    /\ now = 1 /\ HealthInit /\ WireNone /\ MetricsNone /\ SelNone
    /\ CacheNone /\ BucketNone /\ LimiterNone /\ BreakerNone /\ RetryNone
    /\ chatCfg = <<>> /\ handlers = <<>> /\ chatReqs = 0
    /\ WaitNone
    /\ LockNone
    /\ BeatNone
    /\ StreamNone

SpecHealth == InitHealth /\ [][HealthNext]_vars

\* the "chat" IPC handler of AIService around ChatHandler.handle_chat
ServiceNext ==
    \/ \E t \in ChatTasks, p \in ServiceParams : ChatBegin(t, p)
    \/ \E t \in ChatTasks, result \in Values : ChatPrimaryReturns(t, result)
    \/ \E t \in ChatTasks : ChatPrimaryRaises(t)
    \/ \E t \in ChatTasks, chat_ok \in BOOLEAN, result \in Values :
          ServiceAnswer(t, chat_ok, result)

InitService ==
    /\ now = 0 /\ ServiceInit /\ CacheInit
    /\ BucketNone /\ LimiterNone /\ BreakerNone /\ RetryNone
    /\ WireNone
    /\ MetricsNone
    /\ SelNone
    /\ HealthNone
    /\ WaitNone
    /\ LockNone
    /\ BeatNone
    /\ StreamNone

SpecService == InitService /\ [][ServiceNext]_vars

\* calls of wait_if_needed among other callers of check_rate_limit
WaitNext ==
    \/ \E t \in WaitTasks, p \in Priorities,
          n \in WaitTokenArgs, max_wait \in MaxWaitArgs :
          WaitBegin(t, "c1", p, n, max_wait)
    \/ \E t \in WaitTasks : WaitPoll(t)
    \/ \E t \in WaitTasks : WaitWake(t)
    \/ CheckRateLimit("c1", "normal", 2)
    \/ WaitTick

InitWait ==
    /\ now = 0 /\ LimiterInit /\ WaitInit
    /\ CacheNone /\ BucketNone /\ BreakerNone /\ RetryNone /\ ChatNone
    /\ WireNone
    /\ MetricsNone
    /\ SelNone
    /\ HealthNone
    /\ LockNone
    /\ BeatNone
    /\ StreamNone

SpecWait == InitWait /\ [][WaitNext]_vars

\* time passes, and the event loop runs a task that can run
WaitFairness ==
    /\ WF_vars(WaitTick)
    /\ \A t \in WaitTasks : WF_vars(WaitPoll(t)) /\ WF_vars(WaitWake(t))

SpecWaitLive == SpecWait /\ WaitFairness

\* the operations of a CacheManager whose config has enabled = False
InitDisabled ==
    /\ now = 0 /\ CacheInitDisabled
    /\ BucketNone /\ LimiterNone /\ BreakerNone /\ RetryNone /\ ChatNone
    /\ WireNone
    /\ MetricsNone
    /\ SelNone
    /\ HealthNone
    /\ WaitNone
    /\ LockNone
    /\ BeatNone
    /\ StreamNone

SpecDisabled == InitDisabled /\ [][CacheNext]_vars

\* tasks that share one TokenBucket
BucketTasksNext ==
    \/ BucketConsume(MaxConsume * TokenUnit)
    \/ BucketGetTokens
    \/ BucketGetWaitTime(TokenUnit)
    \/ \E t \in CwTasks, n \in CwAmounts, max_wait \in CwMaxWaits :
          CwBegin(t, n, max_wait)
    \/ \E t \in CwTasks : CwConsume(t)
    \/ \E t \in CwTasks : CwCompute(t)
    \/ \E t \in CwTasks : CwWake(t)
    \/ Tick

InitBucketTasks ==
    /\ now = 0 /\ BucketInit /\ CwInit
    /\ CacheNone /\ LimiterNone /\ BreakerNone /\ RetryNone /\ ChatNone
    /\ WireNone
    /\ MetricsNone
    /\ SelNone
    /\ HealthNone
    /\ WaitNone
    /\ BeatNone
    /\ StreamNone

SpecBucketTasks == InitBucketTasks /\ [][BucketTasksNext]_vars

\* tasks that wait for the tokens of a slow bucket
BucketSlowNext ==
    \/ BucketConsume(SlowBucket.capacity * TokenUnit)
    \/ \E t \in CwTasks, n \in CwAmounts, max_wait \in CwMaxWaits :
          CwBegin(t, n, max_wait)
    \/ \E t \in CwTasks : CwConsume(t)
    \/ \E t \in CwTasks : CwCompute(t)
    \/ \E t \in CwTasks : CwWake(t)
    \/ Tick

InitBucketSlow ==
    /\ now = 0 /\ BucketInitWith(SlowBucket) /\ CwInit
    /\ CacheNone /\ LimiterNone /\ BreakerNone /\ RetryNone /\ ChatNone
    /\ WireNone
    /\ MetricsNone
    /\ SelNone
    /\ HealthNone
    /\ WaitNone
    /\ BeatNone
    /\ StreamNone

SpecBucketSlow == InitBucketSlow /\ [][BucketSlowNext]_vars

\* a file-backed cache started over the files of an earlier run
FileCacheNext ==
    \/ \E k \in Keys : CacheGet(k)
    \/ \E s \in BOOLEAN : CacheSet("C", "v1", NoTtl, s)
    \/ \E k \in Keys : CacheDelete(k)
    \/ CacheClear
    \/ CacheCleanupExpired
    \/ Tick

InitFileCache ==
    /\ now = 0 /\ CacheInitFile
    /\ BucketNone /\ LimiterNone /\ BreakerNone /\ RetryNone /\ ChatNone
    /\ WireNone
    /\ MetricsNone
    /\ SelNone
    /\ HealthNone
    /\ WaitNone
    /\ LockNone
    /\ BeatNone
    /\ StreamNone

SpecFileCache == InitFileCache /\ [][FileCacheNext]_vars

\* a router asked for fallbacks as adapter calls fail
FallbackNext ==
    \/ \E m \in FailedModels : RouterGetFallback(m)
    \/ HealthTick

InitFallback ==
    /\ now = 1 /\ FallbackInit /\ WireNone /\ MetricsNone /\ SelNone
    /\ CacheNone /\ BucketNone /\ LimiterNone /\ BreakerNone /\ RetryNone
    /\ chatCfg = <<>> /\ handlers = <<>> /\ chatReqs = 0
    /\ WaitNone
    /\ LockNone
    /\ BeatNone
    /\ StreamNone

SpecFallback == InitFallback /\ [][FallbackNext]_vars

\* the frames the framework sends to a service that only listens
BeatFrames == {Message(HEARTBEAT, "", service_name, "", Bytes(""), EmptyDict)}

\* one client from connect() to disconnect()
BeatNext ==
    \/ BeatRegisterSend
    \/ \E ok \in BOOLEAN : BeatRegisterDone(ok)
    \/ BeatRun
    \/ BeatHeartbeat
    \/ BeatDisconnectBegin
    \/ BeatDisconnectEnd
    \/ \E frame \in BeatFrames : IpcRead(frame)
    \/ IpcReadEnds
    \/ IpcConnectionLost
    \/ BeatTick

InitBeat ==
    /\ now = 0 /\ BeatInit /\ CodecNone /\ KeyNone
    /\ CacheNone /\ BucketNone /\ LimiterNone /\ BreakerNone /\ RetryNone
    /\ ChatNone
    /\ MetricsNone
    /\ SelNone
    /\ HealthNone
    /\ WaitNone
    /\ LockNone
    /\ StreamNone

SpecBeat == InitBeat /\ [][BeatNext]_vars

RouteNext ==
    \/ \E text \in RequestTexts, requested_model \in RouteRequests :
          RouteSelectModel(text, requested_model)
    \/ \E m \in RouteModels : RouteRecordFailure(m)
    \/ \E m \in SuccessModels : RouteRecordSuccess(m)
    \/ RouteTick

InitRoute ==
    /\ now = 1 /\ RouteInit /\ WireNone /\ MetricsNone /\ SelNone
    /\ CacheNone /\ BucketNone /\ LimiterNone /\ BreakerNone /\ RetryNone
    /\ chatCfg = <<>> /\ handlers = <<>> /\ chatReqs = 0
    /\ WaitNone
    /\ LockNone
    /\ BeatNone
    /\ StreamNone

SpecRoute == InitRoute /\ [][RouteNext]_vars

\* tasks of one event loop that send frames on one connection
StreamNext ==
    \/ \E t \in SendTasks : StreamSend(t)
    \/ \E all \in BOOLEAN : StreamFlush(all)
    \/ \E t \in SendTasks : StreamDrained(t)

InitStream ==
    /\ now = 0 /\ StreamInit /\ WireNone
    /\ CacheNone /\ BucketNone /\ LimiterNone /\ BreakerNone /\ RetryNone
    /\ ChatNone
    /\ MetricsNone
    /\ SelNone
    /\ HealthNone
    /\ WaitNone
    /\ LockNone
    /\ BeatNone

SpecStream == InitStream /\ [][StreamNext]_vars

\* =====================================================================
\* properties
\* =====================================================================
\* C1: in an enabled memory-backed cache holding max_size entries, set() of
\* a key that is not cached removes exactly one entry, the least recently
\* used one (recency: insertion order, updated by every get() hit), and
\* leaves every other entry as it was.
C1_SetEvictsLeastRecentlyUsed ==
    [][( /\ cacheCfg.enabled /\ cacheCfg.storage_type = "memory"
         /\ Len(cache) = max_size
         /\ cacheOps' = cacheOps + 1 /\ hits' = hits /\ misses' = misses )
       => \A k \in CacheKeys(cache') \ CacheKeys(cache), v \in Values :
            (\E t \in TtlArgs : CacheSet(k, v, t, TRUE))
            => LET lru == Head(recency)
               IN  /\ CacheKeys(cache') = (CacheKeys(cache) \ {lru}) \cup {k}
                   /\ Len(cache') = max_size
                   /\ evictions' = evictions + 1
                   /\ \A j \in CacheKeys(cache) \ {lru} :
                         CacheLookup(cache', j) = CacheLookup(cache, j)
                   /\ CacheLookup(cache', k).value = v]_vars

\* C1 witness: A and B were stored, a get() hit made A the most recent, and
\* storing C evicted B.
C1_Witness ==
    /\ cacheCfg.enabled /\ cacheCfg.storage_type = "memory"
    /\ evictions = 1 /\ hits = 1
    /\ Len(cache) = max_size
    /\ recency = <<"A", "C">>
    /\ CacheKeys(cache) = {"A", "C"}

\* C2 (as claimed): a get(K) of an entry stored by set(K, V, ttl=t) returns V
\* and counts one hit while the entry's age is at most t; once the age is
\* greater than t it returns None, removes the entry and counts one miss.
C2_GetHonoursPassedTtl ==
    [][\A k \in Keys :
         ( /\ cacheCfg.enabled
           /\ k \in CacheKeys(cache)
           /\ setTtl[k] # NoTtl
           /\ cacheOps' = cacheOps + 1
           /\ CacheGet(k) )
         => LET e == CacheLookup(cache, k)
            IN  IF now - e.created_at <= setTtl[k]
                THEN cacheRet' = e.value /\ hits' = hits + 1 /\ misses' = misses
                ELSE /\ cacheRet' = "None"
                     /\ k \notin CacheKeys(cache')
                     /\ misses' = misses + 1 /\ hits' = hits]_vars

\* C3: a TokenBucket starts with tokens = capacity, and every consume(n)
\* first refills by elapsed * refill_rate capped at capacity, then returns
\* true and subtracts exactly n if and only if the refilled count is >= n;
\* when it returns false it subtracts nothing.
C3_ConsumeRefillsThenTakes ==
    /\ [](bucketLog = <<>> => bucket.tokens = bucket.capacity)
    /\ [][Len(bucketLog') = Len(bucketLog) + 1
          => LET n == bucketLog'[Len(bucketLog')].n
                 added == (now - bucket.last_refill) * bucket.refill_rate
                 refilled == IF bucket.tokens + added > bucket.capacity
                             THEN bucket.capacity
                             ELSE bucket.tokens + added
             IN  /\ bucketRet'.ok <=> refilled >= n
                 /\ bucketLog'[Len(bucketLog')].ok = bucketRet'.ok
                 /\ bucket'.tokens = IF refilled >= n THEN refilled - n
                                                      ELSE refilled
                 /\ bucket'.capacity = bucket.capacity]_vars

\* C3 witness: capacity 5 at 5 tokens per second; consume(5) succeeded, an
\* immediate consume(1) failed, and one second later consume(1) succeeded.
C3_Witness ==
    /\ bucket.capacity = 5 * TokenUnit
    /\ bucket.refill_rate = 5 * TokenUnit
    /\ bucketLog = << [n |-> 5 * TokenUnit, ok |-> TRUE, at |-> 0],
                      [n |-> TokenUnit, ok |-> FALSE, at |-> 0],
                      [n |-> TokenUnit, ok |-> TRUE, at |-> 1] >>
    /\ bucket.tokens = 4 * TokenUnit

\* the tokens a bucket of the limiter holds once refilled at the present
\* time; a client bucket that does not exist yet is full
C4_Avail(which, client) ==
    LET b == GetBucket(limBuckets, which, client)
        added == (now - b.last_refill) * b.refill_rate
    IN  IF b.tokens + added > b.capacity THEN b.capacity ELSE b.tokens + added

\* C4: an enabled check_rate_limit asks global-second, global-minute,
\* client-second, client-minute in that order.  The first bucket holding
\* fewer than the requested tokens ends the call: (False, that bucket's wait
\* time) is returned, the rejection is recorded under that bucket's name and
\* the buckets after it are left as they were.  (True, None) is returned
\* exactly when all four buckets hold enough, and then each gave the tokens.
C4_FirstRefusingBucketRejects ==
    [][(limCfg.enabled /\ total_requests' = total_requests + 1)
       => LET c == limCall'.client
              eff == IF limCfg.enable_priority /\ limCall'.priority = "high"
                     THEN (limCall'.tokens * TokenUnit) \div 2
                     ELSE limCall'.tokens * TokenUnit
              order == <<"global_second", "global_minute",
                         "client_second", "client_minute">>
              short == {i \in 1..4 : C4_Avail(order[i], c) < eff}
          IN  IF short = {}
              THEN /\ limRet' = [allowed |-> TRUE, wait |-> NoWait]
                   /\ limReason' = "None"
                   /\ rejected_requests' = rejected_requests
                   /\ \A i \in 1..4 :
                        GetBucket(limBuckets', order[i], c).tokens
                          = C4_Avail(order[i], c) - eff
              ELSE LET f == CHOOSE i \in short : \A j \in short : i <= j
                       fb == GetBucket(limBuckets, order[f], c)
                   IN  /\ limRet'.allowed = FALSE
                       /\ limRet'.wait = <<eff - C4_Avail(order[f], c),
                                           fb.refill_rate>>
                       /\ limReason' = order[f] \o "_limit"
                       /\ rejected_requests' = rejected_requests + 1
                       /\ StatsOf(client_stats', c).rejected
                            = StatsOf(client_stats, c).rejected + 1
                       /\ \A j \in (f + 1)..4 :
                            limBuckets'[order[j]] = limBuckets[order[j]]]_vars

\* C4 witness: a request was rejected by the client's own per-second bucket
\* while both global buckets still held at least one token.
C4_Witness ==
    /\ limCfg.enabled
    /\ limRet.allowed = FALSE
    /\ limReason = "client_second_limit"
    /\ limBuckets["global_second"].tokens >= TokenUnit
    /\ limBuckets["global_minute"].tokens >= TokenUnit
    /\ limBuckets["client_second"][limCall.client] # <<>>
    /\ limBuckets["client_second"][limCall.client][1].tokens < TokenUnit

\* C5: the circuit breaker starts closed.  The record_failure that brings
\* the failures since the last record_success to failure_threshold or more
\* leaves it open; an earlier one leaves a closed breaker closed.
\* can_attempt() on an open breaker returns false while less than
\* recovery_timeout seconds have passed since the last recorded failure,
\* and from then on returns true and makes the breaker half-open.
\* record_success makes the breaker closed with failure_count 0.  Closed is
\* left only by such a record_failure, and open only by such a can_attempt
\* or by record_success.
C5_BreakerStateMachine ==
    /\ [](breakerOp = "None" => breaker.state = "closed")
    /\ [][now' = now =>
          /\ breakerOp' = "record_failure" =>
               /\ streak' >= failure_threshold => breaker'.state = "open"
               /\ (streak' < failure_threshold /\ breaker.state = "closed")
                    => breaker'.state = "closed"
               /\ breaker'.last_failure_time = now
          /\ (breakerOp' = "can_attempt" /\ breaker.state = "open") =>
               IF now - breaker.last_failure_time >= recovery_timeout
               THEN breakerRet' = TRUE /\ breaker'.state = "half-open"
               ELSE breakerRet' = FALSE /\ breaker'.state = "open"
          /\ breakerOp' = "record_success" =>
               breaker'.state = "closed" /\ breaker'.failure_count = 0
          /\ (breaker.state = "closed" /\ breaker'.state # "closed") =>
               /\ breakerOp' = "record_failure"
               /\ breaker'.state = "open"
               /\ streak' >= failure_threshold
          /\ (breaker.state = "open" /\ breaker'.state # "open") =>
               \/ /\ breakerOp' = "can_attempt"
                  /\ breaker'.state = "half-open"
                  /\ now - breaker.last_failure_time >= recovery_timeout
               \/ /\ breakerOp' = "record_success"
                  /\ breaker'.state = "closed"]_vars

\* C5 witness: five failures in a row opened the breaker, recovery_timeout
\* seconds later can_attempt() returned true and left it half-open.
C5_Witness ==
    /\ streak = 5
    /\ breaker.failure_count = 5
    /\ breaker.state = "half-open"
    /\ breakerOp = "can_attempt"
    /\ breakerRet = TRUE
    /\ now - breaker.last_failure_time = recovery_timeout

\* C6: with retry enabled, a wrapped call that has ended by raising and in
\* which every attempt failed with a retryable error of the operation (so
\* no attempt was refused by the circuit breaker) invoked the operation
\* exactly max_retries + 1 times, slept retry_delay * retry_backoff^(k-1)
\* before retry k = 1..max_retries, raised the error of its last attempt
\* and added exactly max_retries to the retries statistic.
C6_RetriesThenRaisesLast ==
    \A t \in Tasks :
        LET c == callers[t]
        IN  ( /\ rtCfg.enable_retry
              /\ c.pc = "done" /\ c.result = "raised"
              /\ \A i \in DOMAIN c.errs : c.errs[i] = "AdapterError" )
            => /\ c.invoked = max_retries + 1
               /\ Len(c.errs) = max_retries + 1
               /\ c.sleeps = [k \in 1..max_retries |->
                                retry_delay * retry_backoff ^ (k - 1)]
               /\ c.raised = [kind |-> "AdapterError", attempt |-> max_retries]
               /\ c.retried = max_retries

\* C6 witness: a call with the default settings failed four times, slept
\* 1, 2 and 4 seconds in between, and raised.
C6_Witness ==
    /\ rtCfg.enable_retry
    /\ callers["t1"].pc = "done"
    /\ callers["t1"].result = "raised"
    /\ callers["t1"].errs =
         <<"AdapterError", "AdapterError", "AdapterError", "AdapterError">>
    /\ callers["t1"].invoked = 4
    /\ callers["t1"].sleeps = <<1, 2, 4>>
    /\ callers["t1"].retried = 3
    /\ retries = 3

\* C7: in handle_chat with a router, for a non-streaming request whose
\* primary adapter call for model M1 raised and for which get_fallback_model
\* returned (M2, name) with a configured adapter: the fallback adapter's
\* chat is called for M2, and when it returns, the handler returns status
\* "success" with data = that result, adapter_name = name, fallback_used =
\* true and original_model = M1.
C7_FallbackSuccessResponse ==
    \A t \in ChatTasks :
        LET h == handlers[t]
        IN  ( /\ chatCfg.has_router
              /\ ~h.params.stream
              /\ Len(h.calls) >= 1
              /\ ~h.calls[1].ok
              /\ h.fallback_found
              /\ h.fallback_adapter_name \in adapters )
            => \/ h.pc = "fallback" /\ Len(h.calls) = 1
               \/ /\ h.pc = "done"
                  /\ Len(h.calls) = 2
                  /\ h.calls[2].adapter = h.fallback_adapter_name
                  /\ h.calls[2].model = h.fallback_model
                  /\ h.calls[2].ok =>
                       /\ h.response.status = "success"
                       /\ h.response.data = h.calls[2].value
                       /\ h.response.adapter_name = h.fallback_adapter_name
                       /\ h.response.fallback_used = TRUE
                       /\ h.response.original_model = h.calls[1].model

\* C7 witness: the call for gemma3:12b on ollama raised, the router fell
\* back to openai/gpt-4 on openrouter, whose call returned v1.
C7_Witness ==
    /\ chatCfg.has_router
    /\ handlers["h1"].pc = "done"
    /\ handlers["h1"].calls =
         << [adapter |-> "ollama", model |-> "gemma3:12b", ok |-> FALSE,
             value |-> "failed: gemma3:12b"],
            [adapter |-> "openrouter", model |-> "openai/gpt-4", ok |-> TRUE,
             value |-> "v1"] >>
    /\ handlers["h1"].response.status = "success"
    /\ handlers["h1"].response.fallback_used
    /\ handlers["h1"].response.original_model = "gemma3:12b"

\* C8: every REQUEST frame that run() read gets, while the connection stays
\* writable, exactly one reply frame with the id and the method of the
\* request: a RESPONSE with the handler's result if the handler returned,
\* an ERROR if the method has no handler, if the handler raised or if its
\* result could not be encoded, the ERROR data holding the error text and,
\* for an exception, its type name; a frame of another type gets no reply.
C8_Replies(i) == {j \in DOMAIN outbox : sentFor[j] = i}

C8_ReplyIsRight(i, j) ==
    LET req == received[i]
        reply == outbox[j]
        task == tasks[i]
    IN /\ reply.id = req.id
       /\ reply.method = req.method
       /\ IF req.method \notin ipcHandlers
          THEN /\ reply.msg_type = ERROR
               /\ reply.data.kind = "dict"
               /\ DOMAIN reply.data.v = {"error"}
               /\ reply.data.v.error
                     = "Method '" \o req.method \o "' not found"
          ELSE IF task.raised # <<>>
          THEN /\ reply.msg_type = ERROR
               /\ reply.data.kind = "dict"
               /\ DOMAIN reply.data.v = {"error", "type"}
               /\ reply.data.v.error = task.raised[1].text
               /\ reply.data.v.type = task.raised[1].type
          ELSE /\ task.returned # <<>>
               /\ IF task.returned[1] = Dict([adapter |-> Object])
                  THEN /\ reply.msg_type = ERROR
                       /\ reply.data.kind = "dict"
                       /\ DOMAIN reply.data.v = {"error", "type"}
                       /\ reply.data.v.type = "TypeError"
                  ELSE /\ reply.msg_type = RESPONSE
                       /\ reply.data = task.returned[1]

C8_AtMostOneRightReply ==
    /\ \A j \in DOMAIN outbox :
          sentFor[j] = 0 => outbox[j].msg_type \in {REGISTER, HEARTBEAT}
    /\ \A i \in DOMAIN received :
        /\ Cardinality(C8_Replies(i)) <= 1
        /\ received[i].msg_type # REQUEST =>
              C8_Replies(i) = {} /\ tasks[i].pc = "none"
        /\ \A j \in C8_Replies(i) : C8_ReplyIsRight(i, j)
        /\ (/\ received[i].msg_type = REQUEST
            /\ writable
            /\ tasks[i].pc \notin {"created", "handler"})
              => C8_Replies(i) # {}

C8_Answered(i) ==
    (i \in DOMAIN received /\ received[i].msg_type = REQUEST)
        ~> (C8_Replies(i) # {} \/ ~writable)

C8_EveryRequestAnsweredOnce ==
    /\ []C8_AtMostOneRightReply
    /\ \A i \in 1..MaxFrames : C8_Answered(i)

C8_Witness ==
    /\ writable
    /\ \E i \in DOMAIN received, k \in DOMAIN received :
        /\ received[k].msg_type # REQUEST
        /\ received[i].msg_type = REQUEST
        /\ tasks[i].raised # <<>>
        /\ \E j \in C8_Replies(i) : outbox[j].msg_type = ERROR

\* C9: for a Message whose data is a dict and whose metadata is a non-empty
\* map of strings, the frame encode_message produces is a 4-byte
\* little-endian length followed by exactly that many content bytes, and
\* decode_message of these content bytes returns a Message with the same
\* msg_type, id, service, method and metadata and an equal data dict.
C9_InClaim ==
    /\ codecMsg.data.t = "dict"
    /\ codecMsg.metadata.t = "dict"
    /\ codecMsg.metadata.v # <<>>
    /\ \A i \in DOMAIN codecMsg.metadata.v :
          codecMsg.metadata.v[i][2].t = "str"

C9_RoundTrip ==
    C9_InClaim =>
        /\ codecPc = "read" =>
              /\ Len(wire) >= 4
              /\ wire[1] + wire[2] * 256 + wire[3] * 256 * 256
                 + wire[4] * 256 * 256 * 256 = Len(wire) - 4
        /\ codecPc = "done" =>
              /\ wire = <<>>
              /\ content # <<>>
              /\ ~decoded[1].raised
              /\ decoded[1].msg.msg_type = codecMsg.msg_type
              /\ decoded[1].msg.id = codecMsg.id
              /\ decoded[1].msg.service = codecMsg.service
              /\ decoded[1].msg.method = codecMsg.method
              /\ decoded[1].msg.metadata = codecMsg.metadata
              /\ decoded[1].msg.data = codecMsg.data

C9_Witness ==
    /\ C9_InClaim
    /\ codecPc = "done"
    /\ Len(codecMsg.data.v) > 1
    /\ Len(codecMsg.metadata.v) > 1
    /\ \E i \in DOMAIN codecMsg.id : codecMsg.id[i] > 65535
    /\ decoded[1].msg = codecMsg

\* C10: the key generate_cache_key returns depends on model, messages,
\* temperature (0.7 when not passed), max_tokens and top_p only: calls that
\* agree on these five return the same key, whatever other keyword
\* arguments they pass and in whatever order, and every time; calls whose
\* temperatures differ return different keys; and a call leaves its
\* arguments as they were.
C10_Arg(kwargs, name, default) ==
    LET at == {i \in DOMAIN kwargs : kwargs[i][1] = name} IN
    IF at = {} THEN default ELSE kwargs[CHOOSE i \in at : TRUE][2]

C10_SameMessages(a, b) ==
    /\ Len(a.v) = Len(b.v)
    /\ \A k \in DOMAIN a.v : Range(a.v[k].v) = Range(b.v[k].v)

C10_Temperature(c) == C10_Arg(c.kwargs, TemperatureText, JFloat(7))

C10_Agree(c, d) ==
    /\ c.model = d.model
    /\ C10_SameMessages(c.messages, d.messages)
    /\ C10_Temperature(c) = C10_Temperature(d)
    /\ C10_Arg(c.kwargs, MaxTokensText, JNull)
          = C10_Arg(d.kwargs, MaxTokensText, JNull)
    /\ C10_Arg(c.kwargs, TopPText, JNull) = C10_Arg(d.kwargs, TopPText, JNull)

C10_KeyOfFiveInputsOnly ==
    /\ keyCalls = keyCalls0
    /\ \A i \in DOMAIN keyCalls, j \in DOMAIN keyCalls :
          \A m \in DOMAIN keyRet[i], n \in DOMAIN keyRet[j] :
              /\ C10_Agree(keyCalls[i], keyCalls[j])
                    => keyRet[i][m] = keyRet[j][n]
              /\ C10_Temperature(keyCalls[i]) # C10_Temperature(keyCalls[j])
                    => keyRet[i][m] # keyRet[j][n]

C10_Witness ==
    /\ C10_Agree(keyCalls[1], keyCalls[2])
    /\ keyCalls[1].messages # keyCalls[2].messages
    /\ Len(keyCalls[1].kwargs) = 0
    /\ Len(keyCalls[2].kwargs) = 3
    /\ keyRet[1] # <<>>
    /\ keyRet[2] # <<>>
    /\ keyRet[1][1] = keyRet[2][1]

\* C11: when get_metric_summary finds L >= 1 samples of the metric that are
\* inside the window and match the tags, its p95 and p99 are the values at
\* the 0-based indexes min(floor(L * 0.95), L - 1) and
\* min(floor(L * 0.99), L - 1) of these samples' values in ascending order;
\* for the timer samples 1..10 the p95 is 10.
C11_InWindow ==
    LET kept == IF metricsRet.name \in DOMAIN metrics
                THEN metrics[metricsRet.name] ELSE <<>>
    IN {i \in DOMAIN kept :
          /\ kept[i].timestamp >= metricsRet.at - 300
          /\ \A k \in DOMAIN metricsRet.tags :
                k \in DOMAIN kept[i].tags
                /\ kept[i].tags[k] = metricsRet.tags[k]}

\* x is the value at the 0-based index of the values in ascending order
C11_IsAt(x, index) ==
    LET kept == metrics[metricsRet.name] IN
    /\ \E i \in C11_InWindow : kept[i].value = x
    /\ Cardinality({i \in C11_InWindow : kept[i].value < x}) <= index
    /\ Cardinality({i \in C11_InWindow : kept[i].value <= x}) > index

C11_Index(hundredths) ==
    LET L == Cardinality(C11_InWindow)
        floor == CHOOSE n \in 0..L :
                    n * 100 <= L * hundredths /\ (n + 1) * 100 > L * hundredths
    IN IF floor <= L - 1 THEN floor ELSE L - 1

C11_NearestRankPercentiles ==
    metricsRet.op = "get_metric_summary" =>
        /\ metricsRet.ret = NoSummary <=> C11_InWindow = {}
        /\ metricsRet.ret # NoSummary =>
              /\ C11_IsAt(metricsRet.ret[1].p95, C11_Index(95))
              /\ C11_IsAt(metricsRet.ret[1].p99, C11_Index(99))
              /\ (/\ Cardinality(C11_InWindow) = 10
                  /\ \A v \in 1..10 :
                        \E i \in C11_InWindow :
                            metrics[metricsRet.name][i].value = v)
                    => metricsRet.ret[1].p95 = 10

C11_Witness ==
    /\ metricsRet.op = "get_metric_summary"
    /\ metricsRet.ret # NoSummary
    /\ metricsRet.ret[1].count = 10
    /\ metricsRet.ret[1].min = 1
    /\ metricsRet.ret[1].p95 = 10

\* C12: select_model returns None for an empty list of available models,
\* and otherwise a model whose score is the highest among the available
\* models that declare support for the task type (among all the available
\* models when none does): quality * 2, plus 5 for a free model or minus
\* cost * 10 for a paid one when cost_sensitive, plus quality * 3 when
\* quality_priority, plus speed * 2 when speed_priority, plus 3 for a
\* local model when prefer_local, plus the bonus of the task, and 5.0 for a
\* model that is not in the table.  When the candidates are two models of
\* equal quality, one free and local and one costing 0.002 per 1k tokens,
\* and cost_sensitive and prefer_local are on, the free local one is
\* returned.
C12_Pref(key, default) ==
    LET preferences == selCall.args[3]
    IN IF key \in DOMAIN preferences THEN preferences[key] ELSE default

\* the score in thousandths
C12_Score(m) ==
    LET task == selCall.args[1]
        c == MODEL_CAPABILITIES[m]
    IN IF m \notin DOMAIN MODEL_CAPABILITIES THEN 5000
       ELSE 200 * c.quality
            + (IF C12_Pref("cost_sensitive", TRUE) /\ c.cost = 0 THEN 5000 ELSE 0)
            - (IF C12_Pref("cost_sensitive", TRUE) /\ c.cost # 0
               THEN 10 * c.cost ELSE 0)
            + (IF C12_Pref("quality_priority", FALSE) THEN 300 * c.quality ELSE 0)
            + (IF C12_Pref("speed_priority", FALSE) THEN 200 * c.speed ELSE 0)
            + (IF C12_Pref("prefer_local", TRUE) /\ c.provider = "ollama"
               THEN 3000 ELSE 0)
            + (IF task = "code" /\ m = "codellama:13b" THEN 3000 ELSE 0)
            + (IF task = "creative" /\ c.quality >= 80 THEN 2000 ELSE 0)
            + (IF task = "math" /\ c.quality >= 90 THEN 3000 ELSE 0)

C12_Candidates ==
    LET task == selCall.args[1]
        available == {selCall.args[2][i] : i \in DOMAIN selCall.args[2]}
        declared == {m \in available \cap DOMAIN MODEL_CAPABILITIES :
                        task \in MODEL_CAPABILITIES[m].task_types}
    IN IF declared = {} THEN available ELSE declared

C12_FreeLocalAgainstPaid(free, paid) ==
    /\ C12_Candidates = {free, paid}
    /\ {free, paid} \subseteq DOMAIN MODEL_CAPABILITIES
    /\ MODEL_CAPABILITIES[free].quality = MODEL_CAPABILITIES[paid].quality
    /\ MODEL_CAPABILITIES[free].cost = 0
    /\ MODEL_CAPABILITIES[free].provider = "ollama"
    /\ MODEL_CAPABILITIES[paid].cost = 2
    /\ C12_Pref("cost_sensitive", TRUE)
    /\ C12_Pref("prefer_local", TRUE)

C12_SelectsMaximalScore ==
    selCall.op = "select_model" =>
        /\ selCall.ret = "None" <=> selCall.args[2] = <<>>
        /\ selCall.ret # "None" =>
              /\ selCall.ret \in C12_Candidates
              /\ \A m \in C12_Candidates : C12_Score(m) <= C12_Score(selCall.ret)
        /\ \A free, paid \in C12_Candidates :
              C12_FreeLocalAgainstPaid(free, paid) => selCall.ret = free

C12_Witness ==
    /\ selCall.op = "select_model"
    /\ selCall.args[2] = <<"openai/gpt-3.5-turbo", "codellama:13b">>
    /\ C12_FreeLocalAgainstPaid("codellama:13b", "openai/gpt-3.5-turbo")
    /\ selCall.ret = "codellama:13b"

\* C13: analyze_task returns, for the lower-cased concatenation of the
\* contents of the user messages, the task type with the most matching
\* patterns, the first one in the order code, translation, summarization,
\* creative, analysis, math when several have the most, and general when no
\* pattern matches; a text with a fenced code block and the word "debug" is
\* classified code unless all three math patterns match it.
C13_Content(m) ==
    IF "role" \in DOMAIN m /\ m.role = "user" /\ "content" \in DOMAIN m
    THEN m.content ELSE <<>>

C13_Text ==
    LET messages == selCall.args[1]
        first == C13_Content(IF Len(messages) >= 1 THEN messages[1] ELSE <<>>)
        second == C13_Content(IF Len(messages) >= 2 THEN messages[2] ELSE <<>>)
        third == C13_Content(IF Len(messages) >= 3 THEN messages[3] ELSE <<>>)
        all == first \o second \o third
    IN [i \in DOMAIN all |-> lower(all[i])]

C13_Score(t) ==
    Cardinality({i \in DOMAIN TASK_PATTERNS[t] :
                    re_search(TASK_PATTERNS[t][i], C13_Text)})

C13_Types == <<"code", "translation", "summarization", "creative", "analysis", "math">>

C13_HighestFirst ==
    LET scored == {i \in 1..6 : C13_Score(C13_Types[i]) > 0}
    IN IF scored = {} THEN selCall.ret = "general"
       ELSE \E i \in scored :
               /\ selCall.ret = C13_Types[i]
               /\ \A j \in 1..6 : C13_Score(C13_Types[j]) <= C13_Score(C13_Types[i])
               /\ \A j \in 1..(i - 1) :
                     C13_Score(C13_Types[j]) < C13_Score(C13_Types[i])

C13_FenceAndDebug ==
    /\ \E i \in DOMAIN C13_Text : C13_Text[i] = "debug"
    /\ \E i \in DOMAIN C13_Text : C13_Text[i] \in {"~~~", "~~~python"}

C14_FailuresSinceSuccess(m) ==
    LET log == healthLog[m]
        successes == {i \in DOMAIN log : log[i].call = "record_success"}
    IN Cardinality({i \in DOMAIN log :
                      /\ log[i].call = "record_failure"
                      /\ \A j \in successes : j < i})

C14_LastFailureAge(m) ==
    LET log == healthLog[m]
        failures == {i \in DOMAIN log : log[i].call = "record_failure"}
        last == CHOOSE i \in failures : \A j \in failures : j <= i
    IN now - log[last].at

C14_UnhealthyIffThreeRecentFailures ==
    \A m \in DOMAIN healthLog :
        /\ ~is_healthy(model_health[m], now)
             <=> (C14_FailuresSinceSuccess(m) >= 3 /\ C14_LastFailureAge(m) < 300)
        /\ model_health[m].failures = C14_FailuresSinceSuccess(m)
        /\ (healthLog[m] # <<>>
            /\ healthLog[m][Len(healthLog[m])].call = "record_success")
              => is_healthy(model_health[m], now)

C14_Witness ==
    \E m \in DOMAIN healthLog :
        /\ C14_FailuresSinceSuccess(m) >= 3
        /\ C14_LastFailureAge(m) >= 300
        /\ \E i \in DOMAIN healthLog[m] : healthLog[m][i].call = "record_success"
        /\ is_healthy(model_health[m], now)

\* C15: the receive loop appends each frame it reads to the frames read and
\* creates, for a REQUEST, a task that has not run yet, writing nothing
\* itself; while the handlers of earlier requests are pending the loop can
\* read its next frame and the heartbeat task can send its heartbeat; and
\* the reply to a later request can be written before the reply to an
\* earlier one.
C15_Pending == \E i \in DOMAIN tasks : tasks[i].pc \in {"created", "handler"}

C15_LoopCanRead ==
    (running /\ connected /\ Len(received) < MaxFrames)
        => ENABLED (\E frame \in InFrames : IpcRead(frame))

C15_HeartbeatCanBeSent ==
    (heartbeat = "sleeping"
     /\ \A j \in DOMAIN outbox : outbox[j].msg_type # HEARTBEAT)
        => ENABLED IpcHeartbeat

C15_ReadStartsTask ==
    Len(received') > Len(received) =>
        /\ Len(received') = Len(received) + 1
        /\ SubSeq(received', 1, Len(received)) = received
        /\ SubSeq(tasks', 1, Len(tasks)) = tasks
        /\ Len(tasks') = Len(received')
        /\ tasks'[Len(tasks')].pc
              = IF received'[Len(received')].msg_type = REQUEST
                THEN "created" ELSE "none"
        /\ outbox' = outbox

C15_LoopDoesNotWaitForHandlers ==
    /\ [](C15_Pending => (C15_LoopCanRead /\ C15_HeartbeatCanBeSent))
    /\ [][C15_ReadStartsTask]_vars

C15_Witness ==
    \E i \in DOMAIN received, k \in DOMAIN received :
        /\ i < k
        /\ received[i].msg_type = REQUEST
        /\ received[k].msg_type = REQUEST
        /\ \E ji, jk, h \in DOMAIN outbox :
              /\ sentFor[ji] = i
              /\ sentFor[jk] = k
              /\ outbox[h].msg_type = HEARTBEAT
              /\ jk < h
              /\ h < ji

\* C16: when the breaker is open and its recovery timeout has not elapsed
\* at the start of an attempt of with_retry, the call ends there with the
\* CIRCUIT_BREAKER_OPEN error: the wrapped operation is not invoked, there
\* is no backoff sleep and no further attempt, and the retries counter
\* keeps its value.
C16_RejectedAttempt(t) ==
    /\ callers[t].pc = "attempt"
    /\ callers'[t] # callers[t]
    /\ rtCfg.breaker_on
    /\ breaker.state = "open"
    /\ now - breaker.last_failure_time < 2

C16_OpenBreakerFailsAtOnce ==
    [][\A t \in DOMAIN callers :
          C16_RejectedAttempt(t) =>
              /\ callers'[t].pc = "done"
              /\ callers'[t].result = "raised"
              /\ callers'[t].raised.kind = "CIRCUIT_BREAKER_OPEN"
              /\ callers'[t].invoked = callers[t].invoked
              /\ callers'[t].sleeps = callers[t].sleeps
              /\ retries' = retries]_vars

\* C17: when the wrapped operation raises a ValidationError or a
\* RateLimitError, in any attempt, with_retry raises that error to its
\* caller in the same step: the operation is not invoked again, no backoff
\* sleep follows and the retries counter keeps its value.
C17_NotRetried == {"ValidationError", "RateLimitError"}

C17_Raises(t) ==
    /\ callers[t].pc = "calling"
    /\ Len(callers'[t].errs) = Len(callers[t].errs) + 1
    /\ callers'[t].errs[Len(callers'[t].errs)] \in C17_NotRetried

C17_NoRetryOfValidationAndRateLimit ==
    /\ [](\A t \in DOMAIN callers :
            \A k \in DOMAIN callers[t].errs :
                callers[t].errs[k] \in C17_NotRetried =>
                    /\ k = Len(callers[t].errs)
                    /\ callers[t].pc = "done"
                    /\ callers[t].result = "raised"
                    /\ callers[t].raised.kind = callers[t].errs[k]
                    /\ callers[t].invoked
                          = Cardinality({j \in 1..k : callers[t].errs[j]
                                                        # "CIRCUIT_BREAKER_OPEN"})
                    /\ Len(callers[t].sleeps) = k - 1)
    /\ [][\A t \in DOMAIN callers :
            C17_Raises(t) =>
                /\ callers'[t].pc = "done"
                /\ callers'[t].invoked = callers[t].invoked
                /\ callers'[t].sleeps = callers[t].sleeps
                /\ callers'[t].raised.attempt = callers[t].attempt
                /\ retries' = retries]_vars

C17_Witness ==
    /\ rtCfg.enable_retry
    /\ \E t \in DOMAIN callers :
        /\ callers[t].pc = "done"
        /\ callers[t].raised.kind = "RateLimitError"
        /\ callers[t].raised.attempt = 1
        /\ callers[t].errs = <<"AdapterError", "RateLimitError">>
        /\ callers[t].invoked = 2

\* C18: while the breaker is half-open, at most one with_retry call is
\* executing the wrapped operation.
C18_OneAttemptWhileHalfOpen ==
    (rtCfg.breaker_on /\ breaker.state = "half-open")
        => Cardinality({t \in DOMAIN callers : callers[t].pc = "calling"}) <= 1

\* C19: a handler with a cache manager that starts a non-streaming request
\* with messages while the cache holds a live entry under the request's
\* key returns in that step {status "success", data = the entry's value,
\* cached true}; it made no adapter call, and model_health and
\* routing_stats are as they were.
C19_Begins(t) ==
    /\ handlers[t].pc \in {"idle", "done"}
    /\ handlers'[t] # handlers[t]

C19_LiveEntries(key) ==
    { i \in DOMAIN cache : /\ cache[i].key = key
                           /\ now - cache[i].created_at <= cache[i].ttl }

C19_CacheHitReturnsAtOnce ==
    [][ \A t \in ChatTasks :
          LET p == handlers'[t].params
              live == C19_LiveEntries(ChatCacheKey(p))
          IN  ( /\ C19_Begins(t)
                /\ chatCfg.has_cache /\ cacheCfg.enabled
                /\ ~p.stream /\ p.messages # ""
                /\ live # {} )
              => /\ handlers'[t].pc = "done"
                 /\ handlers'[t].response.status = "success"
                 /\ \E i \in live : handlers'[t].response.data = cache[i].value
                 /\ handlers'[t].response.cached = TRUE
                 /\ handlers'[t].response.error = "None"
                 /\ handlers'[t].response.adapter_name = "None"
                 /\ handlers'[t].response.fallback_used = FALSE
                 /\ handlers'[t].model = "None"
                 /\ handlers'[t].calls = <<>>
                 /\ model_health' = model_health
                 /\ routing_stats' = routing_stats ]_vars

\* C19 witness: h2 was answered from the cache with the v1 that h1's call
\* had stored, while the router has routed one request only.
C19_Witness ==
    /\ chatCfg.has_router /\ chatCfg.has_cache
    /\ handlers["h1"].pc = "done" /\ Len(handlers["h1"].calls) = 1
    /\ handlers["h1"].response.data = "v1"
    /\ handlers["h2"].pc = "done" /\ handlers["h2"].calls = <<>>
    /\ handlers["h2"].params = handlers["h1"].params
    /\ handlers["h2"].response.cached
    /\ handlers["h2"].response.data = "v1"
    /\ routing_stats[handlers["h1"].model].routed = 1
    /\ \A m \in AllModels \ {handlers["h1"].model} : routing_stats[m].routed = 0

\* C20: a request of handle_chat makes at most two adapter chat calls, the
\* second one only after the first one raised and for another model; and
\* when the handler has returned after its primary call raised, with no
\* fallback call or with a fallback call that raised too, its response is
\* {status "error", error = the text of the primary call's error}.
C20_Failed(h) ==
    /\ h.pc = "done"
    /\ Len(h.calls) >= 1
    /\ \A i \in DOMAIN h.calls : ~h.calls[i].ok

C20_PrimaryErrorReturned ==
    \A t \in ChatTasks :
        LET h == handlers[t]
        IN  /\ Len(h.calls) <= 2
            /\ Len(h.calls) = 2 => /\ ~h.calls[1].ok
                                   /\ h.calls[2].model # h.calls[1].model
            /\ h.pc = "primary" => h.calls = <<>>
            /\ h.pc = "fallback" => Len(h.calls) = 1
            /\ C20_Failed(h) =>
                  /\ h.response.status = "error"
                  /\ h.response.error = h.calls[1].value
                  /\ h.response.error = "failed: " \o h.calls[1].model
                  /\ h.response.data = "None"
                  /\ h.response.fallback_used = FALSE

\* C20 witness: the call for gemma3:12b raised, the fallback call for
\* openai/gpt-4 raised too, and the response carries the first error.
C20_Witness ==
    /\ handlers["h1"].pc = "done"
    /\ Len(handlers["h1"].calls) = 2
    /\ handlers["h1"].calls[1].model = "gemma3:12b"
    /\ ~handlers["h1"].calls[1].ok
    /\ handlers["h1"].calls[2].model = "openai/gpt-4"
    /\ ~handlers["h1"].calls[2].ok
    /\ handlers["h1"].response.status = "error"
    /\ handlers["h1"].response.error = "failed: gemma3:12b"

\* C21: a chat request with stream true for which handle_chat resolved an
\* adapter, once answered, made one call of that adapter's chat for the
\* selected model and, when the call returned, was answered with a
\* RESPONSE {status "success", data = the call's result}.
C21_Streamed(h) ==
    /\ h.pc = "done"
    /\ h.params.stream
    /\ h.response.status = "streaming"
    /\ h.reply # NoReply

C21_StreamServedAsBufferedResponse ==
    \A t \in ChatTasks :
        LET h == handlers[t]
        IN  C21_Streamed(h) =>
              /\ Len(h.calls) = 1
              /\ h.calls[1].adapter = h.response.adapter_name
              /\ h.calls[1].ok =>
                   /\ h.reply.msg_type = "RESPONSE"
                   /\ h.reply.status = "success"
                   /\ h.reply.data = h.calls[1].value

\* C22: every poll of wait_if_needed ends the call with true when
\* check_rate_limit admitted the request, with false when the time spent
\* plus the reported wait exceeds max_wait, and otherwise starts a sleep of
\* the reported wait that ends no later than max_wait after the call
\* began; and every call that was begun returns, also one for more tokens
\* than the client's bucket can hold.
C22_Polled(t) == waiters'[t].polls = waiters[t].polls + 1

C22_Past(t) ==
    (now - waiters[t].start_time) * limRet'.wait[2] + limRet'.wait[1]
        > waiters[t].max_wait * limRet'.wait[2]

C22_PollStep ==
    \A t \in WaitTasks :
        C22_Polled(t) =>
            IF limRet'.allowed
            THEN waiters'[t].pc = "done" /\ waiters'[t].result = "True"
            ELSE /\ limRet'.wait # NoWait
                 /\ IF C22_Past(t)
                    THEN waiters'[t].pc = "done" /\ waiters'[t].result = "False"
                    ELSE /\ waiters'[t].pc = "sleeping"
                         /\ limRet'.wait[1] > 0 /\ limRet'.wait[2] > 0
                         /\ waiters'[t].wake[1] * limRet'.wait[2] =
                              (now * limRet'.wait[2] + limRet'.wait[1])
                                  * waiters'[t].wake[2]

C22_SleepWithinMaxWait ==
    \A t \in WaitTasks :
        waiters[t].pc = "sleeping" =>
            /\ waiters[t].wake[2] > 0
            /\ waiters[t].wake[1] <=
                 (waiters[t].start_time + waiters[t].max_wait) * waiters[t].wake[2]

C22_WaitAlwaysReturns ==
    /\ [][C22_PollStep]_vars
    /\ [](C22_SleepWithinMaxWait)
    /\ \A t \in WaitTasks :
          (waiters[t].pc \in {"poll", "sleeping"}) ~> (waiters[t].pc = "done")

\* C22 witness: a call for 3 tokens, which the client's per-second bucket
\* of 2 never holds, slept and after more than one poll returned false.
C22_Witness ==
    /\ waiters["w1"].pc = "done"
    /\ waiters["w1"].tokens = 3
    /\ waiters["w1"].priority = "normal"
    /\ waiters["w1"].max_wait = 2
    /\ waiters["w1"].polls >= 2
    /\ waiters["w1"].result = "False"

\* C23: no operation of a CacheManager with enabled = false changes the
\* in-memory map, the hit, miss and eviction counters or the files under
\* storage_path, and get returns None.
C23_DisabledCacheIsInert ==
    [][ ~cacheCfg.enabled =>
          /\ cache' = cache
          /\ hits' = hits /\ misses' = misses /\ evictions' = evictions
          /\ files' = files
          /\ cacheRet' \in {"None", "0"} ]_vars

\* C24: whatever consume, consume_with_wait, get_tokens and get_wait_time
\* calls the tasks have made, and whichever of them wait, the bucket holds
\* at least 0 and at most capacity tokens.
C24_TokensWithinBounds ==
    /\ bucket.tokens >= 0
    /\ bucket.tokens <= bucket.capacity
    /\ bucket.last_refill <= now

\* C24 witness: both tasks have called consume_with_wait; t1 slept and then
\* got its tokens, t2 is waiting, and the bucket is neither full nor empty.
C24_Witness ==
    /\ cw["t1"].pc = "done" /\ cw["t1"].result = "True" /\ cw["t1"].sleeps >= 1
    /\ cw["t2"].pc # "idle"
    /\ bucket.tokens > 0
    /\ bucket.tokens < bucket.capacity

\* C25: a record_failure on a half-open breaker leaves it open, whatever
\* failure_threshold >= 1 it was constructed with; and in every reachable
\* state an open or half-open breaker has failure_count >= failure_threshold
\* and a closed one has failure_count < failure_threshold.
C25_StateMatchesCount ==
    /\ breaker.failure_threshold >= 1
    /\ breaker.state \in {"closed", "open", "half-open"}
    /\ breaker.state \in {"open", "half-open"}
          => breaker.failure_count >= breaker.failure_threshold
    /\ breaker.state = "closed"
          => breaker.failure_count < breaker.failure_threshold

C25_HalfOpenFailureReopens ==
    /\ [][(breaker.state = "half-open" /\ BreakerRecordFailure)
             => breaker'.state = "open"]_vars
    /\ [](C25_StateMatchesCount)
    /\ []((breakerOp = "record_failure" /\ stateBefore = "half-open")
             => breaker.state = "open")

\* C25 witness: a breaker of threshold 2 went half-open after its recovery
\* timeout, the trial call failed, and the breaker is open again.
C25_Witness ==
    /\ breaker.failure_threshold = 2
    /\ breakerOp = "record_failure" /\ stateBefore = "half-open"
    /\ breaker.state = "open"
    /\ breaker.failure_count = 3
    /\ breaker.last_failure_time = now

\* C26 (as claimed): every cached entry holds exactly the ttl that was passed
\* to the set() that stored it, 0 included, and the configured default
\* ttl_seconds only when that set() was given no ttl.
C26_SetStoresPassedTtl ==
    cacheCfg.enabled =>
        \A k \in CacheKeys(cache) :
            CacheLookup(cache, k).ttl =
                IF setTtl[k] = NoTtl THEN ttl_seconds ELSE setTtl[k]

\* C27 (as claimed): every get() on an enabled cache adds one to exactly one
\* of the hit and miss counters; with file storage a get() of a key that is
\* not in memory and whose unexpired entry is loaded from disk returns the
\* value and counts one hit and no miss.
C27_FileLoadIsAHitOnly ==
    [][\A k \in Keys :
         ( /\ cacheCfg.enabled
           /\ cacheOps' = cacheOps + 1
           /\ CacheGet(k) )
         => /\ \/ hits' = hits + 1 /\ misses' = misses
               \/ hits' = hits /\ misses' = misses + 1
            /\ ( /\ cacheCfg.storage_type = "file"
                 /\ k \notin CacheKeys(cache)
                 /\ LoadFromFile(k) # <<>> )
               => /\ cacheRet' = LoadFromFile(k)[1].value
                  /\ hits' = hits + 1 /\ misses' = misses]_vars

\* C28: with fallback enabled, get_fallback_model(failed) returns None or a
\* pair (model, adapter name): the model is not the failed one, shares at
\* least half of the failed model's task types, is healthy when health
\* tracking is on, and the adapter name is a configured adapter. Of the up
\* to three similar models of highest quality it is the first, in order of
\* quality, that meets these conditions; None is returned when there is no
\* such model or the failed model is not in the capability table.
C28_Similar(failed) ==
    IF failed \notin KnownModels THEN {}
    ELSE {m \in KnownModels \ {failed} :
            2 * Cardinality(MODEL_CAPABILITIES[failed].task_types
                            \cap MODEL_CAPABILITIES[m].task_types)
              >= Cardinality(MODEL_CAPABILITIES[failed].task_types)}

\* how many similar models come before m in order of quality (the table's
\* order among equals)
C28_Rank(failed, m) ==
    LET pos(x) == CHOOSE i \in DOMAIN ModelOrder : ModelOrder[i] = x
        q(x) == MODEL_CAPABILITIES[x].quality
    IN  Cardinality({x \in C28_Similar(failed) :
                       \/ q(x) > q(m)
                       \/ q(x) = q(m) /\ pos(x) < pos(m)})

\* the adapter that serves a model of the capability table
C28_AdapterOf(m) == MODEL_CAPABILITIES[m].provider

\* the candidates after the call: among the best three, healthy, served
C28_Candidates(failed) ==
    {m \in C28_Similar(failed) :
        /\ C28_Rank(failed, m) < 3
        /\ C28_AdapterOf(m) \in adapters
        /\ routerCfg.track_model_health => is_healthy(model_health'[m], now)}

C28_FallbackIsFirstSuitable ==
    [][\A failed \in FailedModels :
         (routerCfg.enable_fallback /\ RouterGetFallback(failed))
         => LET candidates == C28_Candidates(failed)
            IN  IF candidates = {}
                THEN ~fbRet'.found /\ fbRet'.model = "None"
                ELSE /\ fbRet'.found
                     /\ fbRet'.model \in candidates
                     /\ fbRet'.model # failed
                     /\ \A m \in candidates :
                          C28_Rank(failed, fbRet'.model) <= C28_Rank(failed, m)
                     /\ fbRet'.adapter = C28_AdapterOf(fbRet'.model)
                     /\ fbRet'.adapter \in adapters]_vars

\* C28 witness: gemma3:12b failed while openai/gpt-4, the best of its three
\* fallbacks, was unhealthy: the second, openai/gpt-3.5-turbo, was returned.
C28_Witness ==
    /\ routerCfg.enable_fallback /\ routerCfg.track_model_health
    /\ fbRet.failed = "gemma3:12b"
    /\ fbRet.found /\ fbRet.model = "openai/gpt-3.5-turbo"
    /\ fbRet.adapter = "openrouter"
    /\ ~is_healthy(model_health["openai/gpt-4"], now)

\* C29: no HEARTBEAT frame is written before the REGISTER frame; once
\* register_service has created the heartbeat task a HEARTBEAT frame with
\* empty data is written every 30 seconds; after disconnect() has returned
\* no HEARTBEAT frame is written any more; and a heartbeat send that raises
\* ends the heartbeat loop and leaves the receive loop as it was.
C29_RegisterFirst ==
    \A k \in Heartbeats :
        /\ beat.reg = "done"
        /\ \E j \in 1..(k - 1) : outbox[j].msg_type = REGISTER

\* the k-th frame of the outbox is the n-th heartbeat
C29_Ordinal(k) == Cardinality({j \in Heartbeats : j <= k})

C29_EveryInterval ==
    /\ \A k \in Heartbeats :
          /\ outbox[k] = heartbeat_msg
          /\ outbox[k].data = Bytes("")
          /\ beat.at[k] = beat.started + 30 * C29_Ordinal(k)
    /\ heartbeat = "sleeping"
          => /\ beat.wake = beat.started + 30 * (Cardinality(Heartbeats) + 1)
             /\ now <= beat.wake
             /\ (now = beat.wake /\ writable) => ENABLED BeatHeartbeat

C29_NoneAfterDisconnect ==
    beat.disc = "returned" => Heartbeats' = Heartbeats /\ outbox' = outbox

C29_FailedSendEndsLoopOnly ==
    (BeatHeartbeat /\ outbox' = outbox)
        => /\ heartbeat' = "stopped"
           /\ beat'.failed
           /\ running' = running /\ received' = received /\ tasks' = tasks
           /\ connected' = connected

C29_HeartbeatLifecycle ==
    /\ [](C29_RegisterFirst)
    /\ [](C29_EveryInterval)
    /\ [][C29_NoneAfterDisconnect]_vars
    /\ [][C29_FailedSendEndsLoopOnly]_vars
    /\ [](beat.failed => heartbeat = "stopped")

\* C29 witness: two heartbeats were written 30 and 60 seconds after the
\* registration, the third send raised on a lost connection while the
\* receive loop went on reading, and disconnect() has returned.
C29_Witness ==
    /\ Cardinality(Heartbeats) = 2
    /\ beat.failed /\ heartbeat = "stopped"
    /\ running /\ received # <<>>
    /\ beat.disc = "returned"
    /\ now >= beat.started + 90

\* C30 (as claimed): the lock of the bucket is never held across a sleep:
\* while a task sleeps inside consume_with_wait the lock is free, so that a
\* consume(), get_tokens() or get_wait_time() of another task can take it
\* and complete.
C30_LockFreeDuringSleep ==
    \A t \in CwTasks :
        cw[t].pc = "sleeping"
            => /\ lock = "None"
               /\ ENABLED BucketGetTokens
               /\ ENABLED BucketGetWaitTime(TokenUnit)

\* C31 (as claimed): a consume_with_wait with a finite max_wait never sleeps
\* beyond its deadline, returns False only without having taken tokens and
\* from the deadline on, and past its deadline it is not kept waiting by
\* another task that is in consume_with_wait on the same bucket.
C31_Deadline(t) == cw[t].start_time + cw[t].max_wait

C31_ReturnsByDeadline ==
    \A t \in CwTasks :
        cw[t].max_wait # NoMaxWait
        => /\ cw[t].pc = "sleeping"
                => FracLeq(cw[t].wake, Frac(C31_Deadline(t), 1))
           /\ (cw[t].pc = "done" /\ cw[t].result = "False")
                => now >= C31_Deadline(t)
           /\ (cw[t].pc \in {"consume", "compute"} /\ now > C31_Deadline(t))
                => ~ \E u \in CwTasks \ {t} :
                        /\ lock = u /\ cw[u].pc = "sleeping"
                        /\ ~FracLeq(cw[u].wake, Frac(now, 1))

\* the tokens a bucket of bs holds once refilled at the present time; a
\* client bucket that does not exist yet is full
C32_Avail(bs, which, client) ==
    LET b == GetBucket(bs, which, client)
        added == (now - b.last_refill) * b.refill_rate
    IN  IF b.tokens + added > b.capacity THEN b.capacity ELSE b.tokens + added

\* C32 (as claimed): a check_rate_limit that rejects takes no tokens from
\* any bucket: each of the four buckets holds after the call what it held
\* before it, so a client refused by its own buckets leaves the global
\* buckets as they were.
C32_RejectionTakesNoTokens ==
    [][(limCfg.enabled /\ total_requests' = total_requests + 1
        /\ ~limRet'.allowed)
       => \A i \in DOMAIN BucketOrder :
            C32_Avail(limBuckets', BucketOrder[i], limCall'.client)
              = C32_Avail(limBuckets, BucketOrder[i], limCall'.client)]_vars

\* C33 (as claimed): a primary adapter call that raises in handle_chat adds
\* exactly one to the failures the router counts for the model, whether
\* fallback is enabled or not, so that a model is unhealthy only after
\* three failed chat requests in a row.
C33_OneFailurePerFailedCall ==
    [][\A t \in ChatTasks :
         (chatCfg.has_router /\ ChatPrimaryRaises(t))
         => LET m == handlers[t].model
            IN  /\ model_health'[m].failures = model_health[m].failures + 1
                /\ (model_health[m].failures < UnhealthyFailures - 1)
                      => is_healthy(model_health'[m], now)]_vars
\* C34 (as claimed): an attempt that with_retry rejects because the breaker
\* is open changes neither the breaker's failure_count nor its
\* last_failure_time, so that the recovery timeout keeps running from the
\* last failure of the wrapped operation.
C34_RejectionNotRecorded ==
    [][\A t \in DOMAIN callers :
          ( /\ callers[t].pc = "attempt"
            /\ callers'[t] # callers[t]
            /\ rtCfg.breaker_on
            /\ ~can_attempt(breaker, now).ok )
          => /\ breaker'.failure_count = breaker.failure_count
             /\ breaker'.last_failure_time = breaker.last_failure_time]_vars
\* C35 (as claimed): with routing enabled, the adapter name that
\* select_model returns is a key of the configured adapter map, whatever
\* model name is requested and whichever adapters are configured.
C35_AdapterIsConfigured ==
    [][(routeRet' # routeRet /\ routerCfg.enabled /\ routeRet'.ok)
          => routeRet'.adapter \in adapters]_vars

\* C36 (as claimed): with routing and health tracking enabled, the model
\* that select_model returns is healthy at the time of the call, after any
\* history of recorded successes and failures.
C36_SelectedIsHealthy ==
    [][( /\ routeRet' # routeRet
         /\ routerCfg.enabled /\ routerCfg.track_model_health
         /\ routeRet'.ok )
          => is_healthy(model_health[routeRet'.model], now)]_vars
\* C37 (as claimed): an enabled CacheManager never holds more than max_size
\* entries in memory, with memory storage and with file storage, after any
\* sequence of get, set, delete, clear and cleanup_expired.
C37_SizeBound == cacheCfg.enabled => Len(cache) <= max_size
\* C40 (as claimed): set() of a key that is already cached replaces that
\* key's entry and removes no other entry: every key cached before the call
\* is cached after it and the eviction counter keeps its value, also when
\* the cache holds max_size entries.
C40_OverwriteEvictsNothing ==
    [][cacheCfg.enabled
       => \A k \in CacheKeys(cache), v \in Values :
            (\E t \in TtlArgs, s \in BOOLEAN : CacheSet(k, v, t, s))
            => /\ CacheKeys(cache) \subseteq CacheKeys(cache')
               /\ CacheLookup(cache', k).value = v
               /\ evictions' = evictions]_vars
\* RateLimiter.get_stats: the request counts it reports
limiter_get_stats ==
    LET order == CHOOSE s \in [1 .. Cardinality(Clients) -> Clients] :
                    \A c \in Clients : \E i \in DOMAIN s : s[i] = c
    IN  [total_requests |-> total_requests,
         allowed_requests |->
             SumOf([i \in DOMAIN order |-> StatsOf(client_stats, order[i]).allowed]),
         rejected_requests |-> rejected_requests,
         client_rejected |->
             SumOf([i \in DOMAIN order |-> StatsOf(client_stats, order[i]).rejected])]

\* C38 (as claimed): in every state of an enabled RateLimiter the
\* statistics of get_stats satisfy total_requests = allowed_requests +
\* rejected_requests, and rejected_requests is the sum of the per-client
\* rejected counts.
C38_StatsAddUp ==
    limCfg.enabled =>
        LET s == limiter_get_stats
        IN  /\ s.total_requests = s.allowed_requests + s.rejected_requests
            /\ s.rejected_requests = s.client_rejected
\* the frames a byte stream splits into, reading a 4-byte length and then
\* that many content bytes, again and again: the contents, and whether the
\* stream ends where a frame ends
RECURSIVE C39_Frames(_)
C39_Frames(stream) ==
    IF stream = <<>> THEN [whole |-> TRUE, contents |-> <<>>]
    ELSE IF Len(stream) < 4 \/ Len(stream) < 4 + unpack_u32(stream, 1)
    THEN [whole |-> FALSE, contents |-> <<>>]
    ELSE LET n == unpack_u32(stream, 1)
             rest == C39_Frames(SubSeq(stream, 5 + n, Len(stream)))
         IN  [whole |-> rest.whole,
              contents |-> <<Slice(stream, 5, n)>> \o rest.contents]

\* C39: the bytes written to the connection by concurrently running
\* senders (request handlers, the heartbeat task, send_streaming_response)
\* are a concatenation of complete frames, one per _send_message call in
\* the order of the calls, each a 4-byte length followed by exactly that
\* many content bytes, the content of the call's Message; the bytes the
\* framework has received so far are a prefix of it.
C39_FramesNotInterleaved ==
    LET frames == C39_Frames(wire \o sendbuf)
    IN  /\ frames.whole
        /\ Len(frames.contents) = Len(written)
        /\ \A i \in DOMAIN written :
              frames.contents[i] = encode_content(written[i])

\* C39 witness: three tasks have written a frame each and two of them are
\* still in their drain, while the framework has received only a part of
\* the first frame.
C39_Witness ==
    /\ Len(written) = 3
    /\ written[1] # written[2] /\ written[2] # written[3]
    /\ Cardinality({t \in SendTasks : senders[t] = "drain"}) >= 2
    /\ wire # <<>> /\ Len(wire) < 4 + Len(encode_content(written[1]))

====
